---- MODULE Spec2Model ----
(***************************************************************************)
(* Artwork_fetcher: the embedded cover-art store (reader, judge, writer), *)
(* the image normaliser and the batch loop that drives them.               *)
(*                                                                         *)
(* A file on disk is a record                                              *)
(*   kind   : the class mutagen.File() returns for it                      *)
(*   tagged : audio_file.tags is not None                                  *)
(*   pics   : the picture entries of its tag structure, in stored order    *)
(*   text   : the artist / album / title text tags                         *)
(* A picture entry is [key, data, width, height, ok]:                      *)
(*   key    : the tag key that holds it                                    *)
(*   data   : the image blob                                               *)
(*   width, height : the inline dimensions (0 = absent / None)             *)
(*   ok     : OggVorbis: the comment base64-decodes to a Picture block;    *)
(*            generic fallback: the tag value is a bytes object            *)
(* An image blob is [form, w, h]: form "empty" (b""), "garbage" (bytes     *)
(* PIL cannot open) or "image" (decodes to w x h pixels).                  *)
(***************************************************************************)
EXTENDS Integers, Sequences, FiniteSets, TLC

VARIABLES disk, env, last, batch, norm

vars == <<disk, env, last, batch, norm>>

\* ------------------------------------------------------------------ bounds
MaxPics == 2
NumFiles == 2
SmallSide == 3
Delta == 2

\* ------------------------------------------------------- program constants
TargetSize == 480

\* ------------------------------------------------------------------- data
Nil == "None"

Kinds == {"MP3", "FLAC", "MP4", "OGG", "OTHER"}

Img(w, h) == [form |-> "image", w |-> w, h |-> h]
EmptyBlob == [form |-> "empty", w |-> 0, h |-> 0]
Garbage == [form |-> "garbage", w |-> 0, h |-> 0]

\* representatives of stored picture data: nothing, undecodable, square, non-square
StoredBlobs == {EmptyBlob, Garbage, Img(2, 2), Img(3, 2)}

Entry(k, d, w, h, ok) == [key |-> k, data |-> d, width |-> w, height |-> h, ok |-> ok]

\* picture blocks with inline dimensions (FLAC, and OggVorbis once decoded): the
\* dimensions absent, or present and at odds with the pixels of the data
Blocks(k) ==
    {Entry(k, d, 0, 0, TRUE) : d \in StoredBlobs}
    \cup {Entry(k, Img(3, 2), 2, 2, TRUE), Entry(k, Img(2, 2), 3, 2, TRUE)}

EntriesOf(kind) ==
    CASE kind = "MP3" -> {Entry("APIC", d, 0, 0, TRUE) : d \in StoredBlobs}
      [] kind = "FLAC" -> Blocks("PICTURE")
      [] kind = "MP4" -> {Entry("covr", d, 0, 0, TRUE) : d \in StoredBlobs}
      [] kind = "OGG" -> Blocks("METADATA_BLOCK_PICTURE")
                         \cup {Entry("METADATA_BLOCK_PICTURE", EmptyBlob, 0, 0, FALSE)}
      [] OTHER -> {Entry(k, d, 0, 0, TRUE) :
                      k \in {"PICTURE", "APIC"}, d \in StoredBlobs \ {EmptyBlob}}
                    \cup {Entry("PICTURE", EmptyBlob, 0, 0, FALSE)}

SeqsUpTo(S, n) == UNION {[1..m -> S] : m \in 0..n}

NoText == [artist |-> Nil, album |-> Nil, title |-> Nil]
SomeText == [artist |-> "a", album |-> "b", title |-> "t"]

FileRec(kind, tagged, pics, text) ==
    [kind |-> kind, tagged |-> tagged, pics |-> pics, text |-> text]

\* the files a folder can hold: an untagged file has no entries at all
FilesOfKind(kind, n, texts) ==
    {FileRec(kind, TRUE, p, t) : p \in SeqsUpTo(EntriesOf(kind), n), t \in texts}
    \cup (IF kind \in {"MP3", "MP4", "OTHER"}
          THEN {FileRec(kind, FALSE, <<>>, NoText)} ELSE {})

AllFiles(n, texts) == UNION {FilesOfKind(k, n, texts) : k \in Kinds}

\* ------------------------------------------------------------ the reader
Pic(d, w, h) == [data |-> d, width |-> w, height |-> h]

NonEmpty(d) == d.form # "empty"

Yield(kept) ==
    [i \in 1..Len(kept) |-> Pic(kept[i].data, kept[i].width, kept[i].height)]

\* tags.get(key) on Vorbis comments: keys compare case-insensitively, so the
\* lookup of either spelling returns every picture comment of the file
VorbisGet(f, key) == f.pics

_iter_embedded_artwork(f) ==
    CASE f.kind = "MP3" ->
           Yield(SelectSeq(f.pics, LAMBDA e : e.key = "APIC" /\ NonEmpty(e.data)))
      [] f.kind = "FLAC" ->
           Yield(SelectSeq(f.pics, LAMBDA e : NonEmpty(e.data)))
      [] f.kind = "MP4" ->
           Yield(SelectSeq(f.pics, LAMBDA e : NonEmpty(e.data)))
      [] f.kind = "OGG" ->
           Yield(SelectSeq(VorbisGet(f, "METADATA_BLOCK_PICTURE"), LAMBDA e : e.ok /\ NonEmpty(e.data)))
           \o Yield(SelectSeq(VorbisGet(f, "metadata_block_picture"), LAMBDA e : e.ok /\ NonEmpty(e.data)))
      [] OTHER ->
           Yield(SelectSeq(f.pics, LAMBDA e : e.key \in {"PICTURE", "APIC"} /\ e.ok))

\* ------------------------------------------------------------- the judge
\* Python's True / False / None, and an exception leaving the function
T == "True"
F == "False"
Raise == "raise"
Square == T
NotSquare == F
Unknown == Nil

\* a decode failure reported as "not square"
_is_square_image_strict(d, width, height, pil) ==
    IF width # 0 /\ height # 0
    THEN (IF width = height THEN Square ELSE NotSquare)
    ELSE IF ~NonEmpty(d) THEN Unknown
    ELSE IF ~pil THEN Unknown
    ELSE IF d.form = "image"
         THEN (IF d.w = d.h THEN Square ELSE NotSquare)
         ELSE NotSquare

_is_square_image(d, width, height, pil) ==
    IF width # 0 /\ height # 0
    THEN (IF width = height THEN Square ELSE NotSquare)
    ELSE IF ~NonEmpty(d) THEN Unknown
    ELSE IF ~pil THEN Unknown
    ELSE IF d.form = "image"
         THEN (IF d.w = d.h THEN Square ELSE NotSquare)
         ELSE Unknown

\* ------------------------------------------------------------ the writer
\* the entries remove_embedded_artwork deletes, per container
RemovedKeys(kind) ==
    CASE kind = "MP3" -> {"APIC"}
      [] kind = "FLAC" -> {"PICTURE"}
      [] kind = "MP4" -> {"covr"}
      [] kind = "OGG" -> {"METADATA_BLOCK_PICTURE"}
      [] OTHER -> {"PICTURE"}

\* the removal done with audio_file.delete(): the whole tag goes, text included
remove_embedded_artwork_delete(f, given, parse, saveOk, mutagen) ==
    IF ~mutagen THEN [ret |-> F, file |-> f]
    ELSE IF ~given /\ parse = "raise" THEN [ret |-> Raise, file |-> f]
    ELSE IF ~given /\ parse = "none" THEN [ret |-> F, file |-> f]
    ELSE LET hit(e) == e.key \in RemovedKeys(f.kind)
             present == \E i \in 1..Len(f.pics) : hit(f.pics[i])
         IN IF ~present THEN [ret |-> F, file |-> f]
            ELSE IF ~saveOk THEN [ret |-> F, file |-> f]
            ELSE [ret |-> T, file |-> [f EXCEPT !.pics = <<>>, !.text = NoText]]

\* parse: what mutagen.File(path) does when the function opens the file itself
\* ("ok", "none" = returns None, "raise"); given: an open audio_file was passed in;
\* saveOk: audio_file.save() does not raise.  Result: the return value and the
\* file as it is on disk afterwards.
remove_embedded_artwork(f, given, parse, saveOk, mutagen) ==
    IF ~mutagen THEN [ret |-> F, file |-> f]
    ELSE IF ~given /\ parse = "raise" THEN [ret |-> Raise, file |-> f]
    ELSE IF ~given /\ parse = "none" THEN [ret |-> F, file |-> f]
    ELSE LET hit(e) == e.key \in RemovedKeys(f.kind)
             present == \E i \in 1..Len(f.pics) : hit(f.pics[i])
             kept == SelectSeq(f.pics, LAMBDA e : ~hit(e))
         IN IF ~present THEN [ret |-> F, file |-> f]
            ELSE IF ~saveOk THEN [ret |-> F, file |-> f]
            ELSE [ret |-> T, file |-> [f EXCEPT !.pics = kept]]

RECURSIVE HasLoopEarly(_, _, _, _, _)
\* the loop leaving with True at the first square picture
HasLoopEarly(pics, i, artwork_found, square_artwork_found, pil) ==
    IF i > Len(pics)
    THEN [nonsquare |-> FALSE, ret |-> IF artwork_found THEN T ELSE F]
    ELSE LET is_square == _is_square_image(pics[i].data, pics[i].width,
                                           pics[i].height, pil)
         IN IF is_square = NotSquare
            THEN [nonsquare |-> TRUE, ret |-> F]
            ELSE IF is_square = Square
            THEN [nonsquare |-> FALSE, ret |-> T]
            ELSE HasLoopEarly(pics, i + 1, TRUE, square_artwork_found, pil)

RECURSIVE HasLoop(_, _, _, _, _)
\* the for loop of has_embedded_artwork: nonsquare = it met a picture that is
\* determinately not square (and left through the purge), ret = its verdict
HasLoop(pics, i, artwork_found, square_artwork_found, pil) ==
    IF i > Len(pics)
    THEN [nonsquare |-> FALSE,
          ret |-> IF square_artwork_found THEN T
                  ELSE IF artwork_found THEN T ELSE F]
    ELSE LET is_square == _is_square_image(pics[i].data, pics[i].width,
                                           pics[i].height, pil)
         IN IF is_square = NotSquare
            THEN [nonsquare |-> TRUE, ret |-> F]
            ELSE HasLoop(pics, i + 1, TRUE,
                         square_artwork_found \/ is_square = Square, pil)

\* has_embedded_artwork without its enclosing try / except
has_embedded_artwork_unguarded(f, parse, saveOk, e) ==
    IF ~e.mutagen THEN [ret |-> F, file |-> f, purge |-> FALSE]
    ELSE IF parse = "raise" THEN [ret |-> Raise, file |-> f, purge |-> FALSE]
    ELSE IF parse = "none" THEN [ret |-> F, file |-> f, purge |-> FALSE]
    ELSE LET r == HasLoop(_iter_embedded_artwork(f), 1, FALSE, FALSE, e.pil)
         IN IF r.nonsquare
            THEN [ret |-> IF saveOk THEN F ELSE Raise,
                  file |-> remove_embedded_artwork(f, TRUE, "ok", saveOk, e.mutagen).file,
                  purge |-> TRUE]
            ELSE [ret |-> r.ret, file |-> f, purge |-> FALSE]

\* the purge also taken for a picture whose squareness is unknown
has_embedded_artwork_purge_unknown(f, parse, saveOk, e) ==
    IF ~e.mutagen THEN [ret |-> F, file |-> f, purge |-> FALSE]
    ELSE IF parse # "ok" THEN [ret |-> F, file |-> f, purge |-> FALSE]
    ELSE LET pics == _iter_embedded_artwork(f)
             r == HasLoop(pics, 1, FALSE, FALSE, e.pil)
             doubt == \E i \in 1..Len(pics) :
                         _is_square_image(pics[i].data, pics[i].width,
                                          pics[i].height, e.pil) # Square
         IN IF doubt
            THEN [ret |-> F,
                  file |-> remove_embedded_artwork(f, TRUE, "ok", saveOk, e.mutagen).file,
                  purge |-> TRUE]
            ELSE [ret |-> r.ret, file |-> f, purge |-> FALSE]

has_embedded_artwork(f, parse, saveOk, e) ==
    IF ~e.mutagen THEN [ret |-> F, file |-> f, purge |-> FALSE]
    ELSE IF parse # "ok" THEN [ret |-> F, file |-> f, purge |-> FALSE]
    ELSE LET r == HasLoop(_iter_embedded_artwork(f), 1, FALSE, FALSE, e.pil)
         IN IF r.nonsquare
            THEN [ret |-> F,
                  file |-> remove_embedded_artwork(f, TRUE, "ok", saveOk, e.mutagen).file,
                  purge |-> TRUE]
            ELSE [ret |-> r.ret, file |-> f, purge |-> FALSE]

\* a generic embed for the other containers: the bytes stored under 'PICTURE'
embed_artwork_generic(f, image_data, parse, saveOk, mutagen) ==
    IF ~mutagen THEN [ret |-> Raise, file |-> f]
    ELSE IF parse # "ok" THEN [ret |-> F, file |-> f]
    ELSE IF f.kind = "MP4" /\ ~f.tagged THEN [ret |-> F, file |-> f]
    ELSE IF ~saveOk THEN [ret |-> F, file |-> f]
    ELSE IF f.kind = "OTHER"
    THEN [ret |-> T,
          file |-> [f EXCEPT !.tagged = TRUE,
                             !.pics = Append(@, Entry("PICTURE", image_data, 0, 0, TRUE))]]
    ELSE LET new ==
               CASE f.kind = "MP3" -> Entry("APIC", image_data, 0, 0, TRUE)
                 [] f.kind = "FLAC" -> Entry("PICTURE", image_data, 0, 0, TRUE)
                 [] f.kind = "MP4" -> Entry("covr", image_data, 0, 0, TRUE)
                 [] OTHER -> Entry("METADATA_BLOCK_PICTURE", image_data, 0, 0, TRUE)
             pics ==
               CASE f.kind = "MP3" ->
                      Append(SelectSeq(f.pics, LAMBDA x : x.key # "APIC"), new)
                 [] f.kind = "FLAC" -> Append(f.pics, new)
                 [] f.kind = "MP4" -> <<new>>
                 [] OTHER -> <<new>>
         IN [ret |-> T, file |-> [f EXCEPT !.tagged = TRUE, !.pics = pics]]

\* return True placed ahead of audio_file.save(): a failed save still reports True
embed_artwork_unsaved(f, image_data, parse, saveOk, mutagen) ==
    IF ~mutagen THEN [ret |-> Raise, file |-> f]
    ELSE IF parse # "ok" THEN [ret |-> F, file |-> f]
    ELSE IF f.kind = "OTHER" THEN [ret |-> F, file |-> f]
    ELSE IF f.kind = "MP4" /\ ~f.tagged THEN [ret |-> F, file |-> f]
    ELSE IF ~saveOk THEN [ret |-> T, file |-> f]
    ELSE LET new ==
               CASE f.kind = "MP3" -> Entry("APIC", image_data, 0, 0, TRUE)
                 [] f.kind = "FLAC" -> Entry("PICTURE", image_data, 0, 0, TRUE)
                 [] f.kind = "MP4" -> Entry("covr", image_data, 0, 0, TRUE)
                 [] OTHER -> Entry("METADATA_BLOCK_PICTURE", image_data, 0, 0, TRUE)
             pics ==
               CASE f.kind = "MP3" ->
                      Append(SelectSeq(f.pics, LAMBDA x : x.key # "APIC"), new)
                 [] f.kind = "FLAC" -> Append(f.pics, new)
                 [] f.kind = "MP4" -> <<new>>
                 [] OTHER -> <<new>>
         IN [ret |-> T, file |-> [f EXCEPT !.tagged = TRUE, !.pics = pics]]

\* the MP3 branch without audio_file.add_tags(): tags.add() on a file that has
\* no tag raises and the call returns False
embed_artwork_no_add_tags(f, image_data, parse, saveOk, mutagen) ==
    IF ~mutagen THEN [ret |-> Raise, file |-> f]
    ELSE IF parse # "ok" THEN [ret |-> F, file |-> f]
    ELSE IF f.kind = "OTHER" THEN [ret |-> F, file |-> f]
    ELSE IF f.kind \in {"MP3", "MP4"} /\ ~f.tagged THEN [ret |-> F, file |-> f]
    ELSE IF ~saveOk THEN [ret |-> F, file |-> f]
    ELSE LET new ==
               CASE f.kind = "MP3" -> Entry("APIC", image_data, 0, 0, TRUE)
                 [] f.kind = "FLAC" -> Entry("PICTURE", image_data, 0, 0, TRUE)
                 [] f.kind = "MP4" -> Entry("covr", image_data, 0, 0, TRUE)
                 [] OTHER -> Entry("METADATA_BLOCK_PICTURE", image_data, 0, 0, TRUE)
             pics ==
               CASE f.kind = "MP3" ->
                      Append(SelectSeq(f.pics, LAMBDA x : x.key # "APIC"), new)
                 [] f.kind = "FLAC" -> Append(f.pics, new)
                 [] f.kind = "MP4" -> <<new>>
                 [] OTHER -> <<new>>
         IN [ret |-> T, file |-> [f EXCEPT !.tagged = TRUE, !.pics = pics]]

\* Picture() leaves width and height at 0; the frame / block / atom / comment
\* carries image_data unchanged
embed_artwork(f, image_data, parse, saveOk, mutagen) ==
    IF ~mutagen THEN [ret |-> Raise, file |-> f]
    ELSE IF parse # "ok" THEN [ret |-> F, file |-> f]
    ELSE IF f.kind = "OTHER" THEN [ret |-> F, file |-> f]
    ELSE IF f.kind = "MP4" /\ ~f.tagged THEN [ret |-> F, file |-> f]
    ELSE IF ~saveOk THEN [ret |-> F, file |-> f]
    ELSE LET new ==
               CASE f.kind = "MP3" -> Entry("APIC", image_data, 0, 0, TRUE)
                 [] f.kind = "FLAC" -> Entry("PICTURE", image_data, 0, 0, TRUE)
                 [] f.kind = "MP4" -> Entry("covr", image_data, 0, 0, TRUE)
                 [] OTHER -> Entry("METADATA_BLOCK_PICTURE", image_data, 0, 0, TRUE)
             pics ==
               CASE f.kind = "MP3" ->
                      Append(SelectSeq(f.pics, LAMBDA x : x.key # "APIC"), new)
                 [] f.kind = "FLAC" -> Append(f.pics, new)
                 [] f.kind = "MP4" -> <<new>>
                 [] OTHER -> <<new>>
         IN [ret |-> T, file |-> [f EXCEPT !.tagged = TRUE, !.pics = pics]]

\* ------------------------------------------------- the operations, one file
\* image bytes a caller hands to embed_artwork: undecodable, square, non-square
EmbedBlobs == {Garbage, Img(2, 2), Img(3, 2)}

BlankFile == FileRec("MP3", FALSE, <<>>, NoText)

Call(op, p, ret, img, parse, saveOk, pre, purge) ==
    [op |-> op, f |-> p, ret |-> ret, img |-> img, parse |-> parse,
     saveOk |-> saveOk, pre |-> pre, purge |-> purge]

NoCall == Call("none", 0, Nil, EmptyBlob, "ok", TRUE, BlankFile, FALSE)

BatchIdle == [pc |-> "idle"]
NormIdle == [pc |-> "idle"]

Init ==
    /\ env \in [mutagen : BOOLEAN, pil : BOOLEAN]
    /\ disk \in [{1} -> AllFiles(MaxPics, {NoText, SomeText})]
    /\ last = NoCall
    /\ batch = BatchIdle
    /\ norm = NormIdle

\* the outcomes of opening and saving the file that a call can meet
Outcomes == {<<"ok", TRUE>>, <<"ok", FALSE>>, <<"none", TRUE>>, <<"raise", TRUE>>}

HasEmbeddedArtwork(p) ==
    \E o \in Outcomes :
        LET parse == o[1]
            saveOk == o[2]
            r == has_embedded_artwork(disk[p], parse, saveOk, env)
        IN /\ disk' = [disk EXCEPT ![p] = r.file]
           /\ last' = Call("has", p, r.ret, EmptyBlob, parse, saveOk, disk[p], r.purge)
           /\ UNCHANGED <<env, batch, norm>>

RemoveEmbeddedArtwork(p) ==
    \E o \in Outcomes :
        LET parse == o[1]
            saveOk == o[2]
            r == remove_embedded_artwork(disk[p], FALSE, parse, saveOk, env.mutagen)
        IN /\ disk' = [disk EXCEPT ![p] = r.file]
           /\ last' = Call("remove", p, r.ret, EmptyBlob, parse, saveOk, disk[p], FALSE)
           /\ UNCHANGED <<env, batch, norm>>

EmbedArtwork(p) ==
    \E img \in EmbedBlobs, o \in Outcomes :
        LET parse == o[1]
            saveOk == o[2]
            r == embed_artwork(disk[p], img, parse, saveOk, env.mutagen)
        IN /\ Len(disk[p].pics) <= MaxPics
           /\ disk' = [disk EXCEPT ![p] = r.file]
           /\ last' = Call("embed", p, r.ret, img, parse, saveOk, disk[p], FALSE)
           /\ UNCHANGED <<env, batch, norm>>

Next ==
    \/ \E p \in DOMAIN disk : HasEmbeddedArtwork(p)
    \/ \E p \in DOMAIN disk : RemoveEmbeddedArtwork(p)
    \/ \E p \in DOMAIN disk : EmbedArtwork(p)

Spec == Init /\ [][Next]_vars

\* --------------------------------------------------------- the normaliser
Min(a, b) == IF a < b THEN a ELSE b

Decodable(d) == d.form = "image"

Box(l, t, r, b) == [left |-> l, top |-> t, right |-> r, bottom |-> b]

\* a result: the bytes returned, or an exception leaving the function
Ok(d) == [status |-> "ok", blob |-> d]
Raised == [status |-> "raise", blob |-> EmptyBlob]

\* the crop taking the margin's larger half from the left / top
CropBoxCeil(width, height) ==
    IF width = height
    THEN Box(0, 0, width, height)
    ELSE LET side == Min(width, height)
             left == (width - side + 1) \div 2
             top == (height - side + 1) \div 2
         IN Box(left, top, left + side, top + side)

\* the crop keeping the image's full width
CropBoxWide(width, height) ==
    IF width = height
    THEN Box(0, 0, width, height)
    ELSE LET side == Min(width, height)
             left == (width - side) \div 2
             top == (height - side) \div 2
         IN Box(left, top, width, top + side)

\* cover_processor._crop_center_square: the box image.crop is given (the whole
\* image when it is returned as it is)
_crop_center_square(width, height) ==
    IF width = height
    THEN Box(0, 0, width, height)
    ELSE LET side == Min(width, height)
             left == (width - side) \div 2
             top == (height - side) \div 2
             right == left + side
             bottom == top + side
         IN Box(left, top, right, bottom)

Cropped(box) == Img(box.right - box.left, box.bottom - box.top)

\* download_and_process_youtube_cover from the downloaded image_data on
download_and_process_youtube_cover(image_data, force_480, pil) ==
    IF ~pil
    THEN (IF force_480 THEN Raised ELSE Ok(image_data))
    ELSE IF ~Decodable(image_data) THEN Raised
    ELSE LET image == Cropped(_crop_center_square(image_data.w, image_data.h))
         IN IF force_480 \/ image.w < TargetSize
            THEN Ok(Img(TargetSize, TargetSize))
            ELSE Ok(image)

\* download_and_embed_using_url._crop_center_square, on bytes
crop_center_square_box(width, height) ==
    IF width = height
    THEN Box(0, 0, width, height)
    ELSE LET side == Min(width, height)
             left == (width - side) \div 2
             top == (height - side) \div 2
             right == left + side
             bottom == top + side
         IN Box(left, top, right, bottom)

crop_center_square_bytes(image_data, pil) ==
    IF ~pil \/ ~Decodable(image_data) THEN Raised
    ELSE IF image_data.w = image_data.h THEN Ok(image_data)
    ELSE Ok(Cropped(crop_center_square_box(image_data.w, image_data.h)))

_downscale_to_480(image_data, pil) ==
    IF ~pil \/ ~Decodable(image_data) THEN Raised
    ELSE Ok(Img(TargetSize, TargetSize))

\* the image download_and_embed_artwork_using_url hands to _embed_artwork
url_image_for_embed(image_data, square, downscale_to_480, pil) ==
    LET a == IF square THEN crop_center_square_bytes(image_data, pil) ELSE Ok(image_data)
    IN IF a.status = "raise" THEN Raised
       ELSE IF downscale_to_480 THEN _downscale_to_480(a.blob, pil)
       ELSE a

\* youtubeMusicMetadataFetcher._crop_image_bytes_to_square
crop_image_bytes_box(width, height) ==
    IF width = height
    THEN Box(0, 0, width, height)
    ELSE LET side == Min(width, height)
             left == (width - side) \div 2
             top == (height - side) \div 2
             right == left + side
             bottom == top + side
         IN Box(left, top, right, bottom)

_crop_image_bytes_to_square(image_bytes, pil) ==
    IF ~pil THEN Ok(image_bytes)
    ELSE IF ~Decodable(image_bytes) THEN Raised
    ELSE Ok(Cropped(crop_image_bytes_box(image_bytes.w, image_bytes.h)))

Sides == (1..SmallSide) \cup ((TargetSize - Delta)..(TargetSize + Delta))

NormInputs == {Img(w, h) : w, h \in Sides} \cup {Garbage}

NormDone(fn, img, force, square, out, box) ==
    [pc |-> "done", fn |-> fn, img |-> img, force |-> force, square |-> square,
     out |-> out, box |-> box]

InitNorm ==
    /\ env \in [mutagen : {TRUE}, pil : BOOLEAN]
    /\ disk = <<BlankFile>>
    /\ last = NoCall
    /\ batch = BatchIdle
    /\ norm = NormIdle

ProcessYoutubeCover ==
    \E img \in NormInputs, force_480 \in BOOLEAN :
        /\ norm' = NormDone("cover", img, force_480, TRUE,
                            download_and_process_youtube_cover(img, force_480, env.pil),
                            IF Decodable(img) THEN _crop_center_square(img.w, img.h)
                            ELSE Box(0, 0, 0, 0))
        /\ UNCHANGED <<disk, env, last, batch>>

NormalizeForUrlEmbed ==
    \E img \in NormInputs, square \in BOOLEAN, downscale_to_480 \in BOOLEAN :
        /\ norm' = NormDone("url", img, downscale_to_480, square,
                            url_image_for_embed(img, square, downscale_to_480, env.pil),
                            IF Decodable(img) THEN crop_center_square_box(img.w, img.h)
                            ELSE Box(0, 0, 0, 0))
        /\ UNCHANGED <<disk, env, last, batch>>

CropImageBytesToSquare ==
    \E img \in NormInputs :
        /\ norm' = NormDone("bytes", img, FALSE, TRUE,
                            _crop_image_bytes_to_square(img, env.pil),
                            IF Decodable(img) THEN crop_image_bytes_box(img.w, img.h)
                            ELSE Box(0, 0, 0, 0))
        /\ UNCHANGED <<disk, env, last, batch>>

NextNorm ==
    \/ ProcessYoutubeCover
    \/ NormalizeForUrlEmbed
    \/ CropImageBytesToSquare

SpecNorm == InitNorm /\ [][NextNorm]_vars

\* ---------------------------------------------------------- the batch loop
\* download_and_embed_using_url._embed_artwork, the copy of embed_artwork
_embed_artwork(f, image_data, parse, saveOk, mutagen) ==
    IF ~mutagen THEN [ret |-> Raise, file |-> f]
    ELSE IF parse # "ok" THEN [ret |-> F, file |-> f]
    ELSE IF f.kind = "OTHER" THEN [ret |-> F, file |-> f]
    ELSE IF f.kind = "MP4" /\ ~f.tagged THEN [ret |-> F, file |-> f]
    ELSE IF ~saveOk THEN [ret |-> F, file |-> f]
    ELSE LET new ==
               CASE f.kind = "MP3" -> Entry("APIC", image_data, 0, 0, TRUE)
                 [] f.kind = "FLAC" -> Entry("PICTURE", image_data, 0, 0, TRUE)
                 [] f.kind = "MP4" -> Entry("covr", image_data, 0, 0, TRUE)
                 [] OTHER -> Entry("METADATA_BLOCK_PICTURE", image_data, 0, 0, TRUE)
             pics ==
               CASE f.kind = "MP3" ->
                      Append(SelectSeq(f.pics, LAMBDA x : x.key # "APIC"), new)
                 [] f.kind = "FLAC" -> Append(f.pics, new)
                 [] f.kind = "MP4" -> <<new>>
                 [] OTHER -> <<new>>
         IN [ret |-> T, file |-> [f EXCEPT !.tagged = TRUE, !.pics = pics]]

\* what the network returns for an image URL: the request fails, the response is
\* no image, or it carries these bytes
NetBlobs == {EmptyBlob, Garbage, Img(2, 2), Img(3, 2)}
Responses == {[status |-> "fail", blob |-> EmptyBlob], [status |-> "notimage", blob |-> EmptyBlob]}
             \cup {Ok(d) : d \in NetBlobs}

\* download_artwork_image: the bytes, or None
download_artwork_image(resp) ==
    IF resp.status = "ok" THEN resp ELSE [status |-> "none", blob |-> EmptyBlob]

Done(ret, file, embedded, img) ==
    [ret |-> ret, file |-> file, embedded |-> embedded, img |-> img]

\* page: what fetch_first_artwork_image does ("found" an image URL, "none", "raise")
download_and_embed_artwork(f, page, resp, parse, saveOk, mutagen) ==
    IF page = "raise" THEN Done(Raise, f, FALSE, EmptyBlob)
    ELSE IF page = "none" THEN Done(F, f, FALSE, EmptyBlob)
    ELSE LET image_data == download_artwork_image(resp)
         IN IF image_data.status # "ok" \/ ~NonEmpty(image_data.blob)
            THEN Done(F, f, FALSE, EmptyBlob)
            ELSE LET r == embed_artwork(f, image_data.blob, parse, saveOk, mutagen)
                 IN Done(r.ret, r.file, TRUE, image_data.blob)

download_and_embed_artwork_using_url(f, resp, square, downscale_to_480, parse, saveOk, e) ==
    IF resp.status # "ok" THEN Done(Nil, f, FALSE, EmptyBlob)
    ELSE LET image_data == url_image_for_embed(resp.blob, square, downscale_to_480, e.pil)
         IN IF image_data.status = "raise" THEN Done(Nil, f, FALSE, EmptyBlob)
            ELSE LET r == _embed_artwork(f, image_data.blob, parse, saveOk, e.mutagen)
                 IN Done(IF r.ret = Raise THEN Nil ELSE r.ret, r.file, TRUE,
                         image_data.blob)

\* get_music_metadata: artist, album, title of the file, or an exception
get_music_metadata(f, parse, mutagen) ==
    IF ~mutagen \/ parse # "ok" THEN [status |-> "raise", metadata |-> NoText]
    ELSE [status |-> "ok", metadata |-> f.text]

Truthy(v) == v # Nil /\ v # ""

\* the files of the folder: without pictures, with non-square art (purged by the
\* judge) or with square art, in a container whose embed replaces (MP3), appends
\* (FLAC) or is unsupported (generic fallback); one file without text tags
OnePic(kind, d) == <<Entry(CHOOSE k \in RemovedKeys(kind) : TRUE, d, 0, 0, TRUE)>>

BatchFiles ==
    {FileRec(k, TRUE, <<>>, SomeText) : k \in {"MP3", "FLAC", "OTHER"}}
    \cup {FileRec("MP3", TRUE, OnePic("MP3", Img(3, 2)), SomeText),
          FileRec("MP3", TRUE, OnePic("MP3", Img(2, 2)), SomeText),
          FileRec("MP3", TRUE, <<>>, NoText)}

Remove(seq, x) == SelectSeq(seq, LAMBDA y : y # x)

Running(pc, i, w, wo, urls) ==
    [pc |-> pc, i |-> i, with_artwork |-> w, without_artwork |-> wo,
     artwork_urls |-> urls]

InitBatch ==
    /\ env \in [mutagen : BOOLEAN, pil : BOOLEAN]
    /\ disk \in [1..NumFiles -> BatchFiles]
    /\ last = NoCall
    /\ batch = BatchIdle
    /\ norm = NormIdle

\* the loop entered without the dependency check
StartUnchecked ==
    /\ batch.pc = "idle"
    /\ batch' = Running("eval", 1, <<>>, <<>>, {})
    /\ UNCHANGED <<disk, env, last, norm>>

\* yumebyo() up to the loop: the dependency check and the scan
Start ==
    /\ batch.pc = "idle"
    /\ batch' = IF ~env.mutagen THEN [pc |-> "raised"]
                ELSE Running("eval", 1, <<>>, <<>>, {})
    /\ UNCHANGED <<disk, env, last, norm>>

NextFile == [batch EXCEPT !.pc = "eval", !.i = batch.i + 1]

\* the head of the loop body: has_embedded_artwork(file_path)
Evaluate ==
    /\ batch.pc = "eval" /\ batch.i <= Len(disk)
    /\ \E o \in Outcomes :
         LET p == batch.i
             r == has_embedded_artwork(disk[p], o[1], o[2], env)
         IN /\ disk' = [disk EXCEPT ![p] = r.file]
            /\ last' = Call("has", p, r.ret, EmptyBlob, o[1], o[2], disk[p], r.purge)
            /\ batch' = IF r.ret = T
                         THEN [NextFile EXCEPT !.with_artwork = Append(@, p)]
                         ELSE [batch EXCEPT !.pc = "meta",
                                            !.without_artwork = Append(@, p)]
    /\ UNCHANGED <<env, norm>>

\* the loop body without its inner try / except: an exception of
\* get_music_metadata leaves the loop
MetadataUncaught ==
    /\ batch.pc = "meta"
    /\ \E parse \in {"ok", "none", "raise"} :
         LET p == batch.i
             m == get_music_metadata(disk[p], parse, env.mutagen)
         IN /\ last' = Call("metadata", p, IF m.status = "ok" THEN T ELSE Raise,
                             EmptyBlob, parse, TRUE, disk[p], FALSE)
            /\ batch' = IF m.status = "raise" THEN [pc |-> "raised"]
                         ELSE IF Truthy(m.metadata.artist) \/ Truthy(m.metadata.album)
                         THEN [batch EXCEPT !.pc = "musichoarders",
                                            !.artwork_urls = @ \cup {p}]
                         ELSE NextFile
    /\ UNCHANGED <<disk, env, norm>>

\* get_music_metadata and the search URL
Metadata ==
    /\ batch.pc = "meta"
    /\ \E parse \in {"ok", "none", "raise"} :
         LET p == batch.i
             m == get_music_metadata(disk[p], parse, env.mutagen)
         IN /\ last' = Call("metadata", p, IF m.status = "ok" THEN T ELSE Raise,
                             EmptyBlob, parse, TRUE, disk[p], FALSE)
            /\ batch' = IF m.status = "raise" THEN NextFile
                         ELSE IF Truthy(m.metadata.artist) \/ Truthy(m.metadata.album)
                         THEN [batch EXCEPT !.pc = "musichoarders",
                                            !.artwork_urls = @ \cup {p}]
                         ELSE NextFile
    /\ UNCHANGED <<disk, env, norm>>

\* the file appended to with_artwork and left in without_artwork
MusicHoardersNoRemove ==
    /\ batch.pc = "musichoarders"
    /\ \E page \in {"found", "none", "raise"}, resp \in Responses, o \in Outcomes :
         LET p == batch.i
             r == download_and_embed_artwork(disk[p], page, resp, o[1], o[2], env.mutagen)
         IN /\ Len(disk[p].pics) <= MaxPics
            /\ disk' = [disk EXCEPT ![p] = r.file]
            /\ last' = Call(IF r.embedded THEN "embed_mh" ELSE "fetch_mh", p, r.ret,
                             r.img, o[1], o[2], disk[p], FALSE)
            /\ batch' = IF r.ret = Raise THEN NextFile
                         ELSE IF r.ret = T
                         THEN [NextFile EXCEPT !.with_artwork = Append(@, p)]
                         ELSE [batch EXCEPT !.pc = "youtube"]
    /\ UNCHANGED <<env, norm>>

\* success = download_and_embed_artwork(file_path, musichoarders_artwork_url)
MusicHoarders ==
    /\ batch.pc = "musichoarders"
    /\ \E page \in {"found", "none", "raise"}, resp \in Responses, o \in Outcomes :
         LET p == batch.i
             r == download_and_embed_artwork(disk[p], page, resp, o[1], o[2], env.mutagen)
         IN /\ Len(disk[p].pics) <= MaxPics
            /\ disk' = [disk EXCEPT ![p] = r.file]
            /\ last' = Call(IF r.embedded THEN "embed_mh" ELSE "fetch_mh", p, r.ret,
                             r.img, o[1], o[2], disk[p], FALSE)
            /\ batch' = IF r.ret = Raise THEN NextFile
                         ELSE IF r.ret = T
                         THEN [NextFile EXCEPT
                                 !.with_artwork = Append(@, p),
                                 !.without_artwork = Remove(@, p)]
                         ELSE [batch EXCEPT !.pc = "youtube"]
    /\ UNCHANGED <<env, norm>>

\* get_thumbnail_url and download_and_embed_artwork_using_url(file_path, url)
Youtube ==
    /\ batch.pc = "youtube"
    /\ \E thumb \in {"found", "raise"}, resp \in Responses, o \in Outcomes :
         LET p == batch.i
             r == IF thumb = "raise" THEN Done(Raise, disk[p], FALSE, EmptyBlob)
                  ELSE download_and_embed_artwork_using_url(disk[p], resp, TRUE, FALSE,
                                                            o[1], o[2], env)
         IN /\ Len(disk[p].pics) <= MaxPics
            /\ disk' = [disk EXCEPT ![p] = r.file]
            /\ last' = Call(IF r.embedded THEN "embed_yt" ELSE "fetch_yt", p, r.ret,
                             r.img, o[1], o[2], disk[p], FALSE)
            /\ batch' = IF r.ret = T
                         THEN [NextFile EXCEPT
                                 !.with_artwork = Append(@, p),
                                 !.without_artwork = Remove(@, p)]
                         ELSE NextFile
    /\ UNCHANGED <<env, norm>>

\* the loop is exhausted: return results
Finish ==
    /\ batch.pc = "eval" /\ batch.i > Len(disk)
    /\ batch' = [batch EXCEPT !.pc = "done"]
    /\ UNCHANGED <<disk, env, last, norm>>

NextBatch ==
    \/ Start
    \/ Evaluate
    \/ Metadata
    \/ MusicHoarders
    \/ Youtube
    \/ Finish

SpecBatch == InitBatch /\ [][NextBatch]_vars

\* --------------------------------------------- a file without tags, in use
\* A caller takes an MP3 file that has no tag and calls, in this order,
\* has_embedded_artwork, get_music_metadata, embed_artwork and has_embedded_artwork
\* again.  batch.nominal: every open and save so far went through.
Fresh(pc, nominal, metadata, img) ==
    [pc |-> pc, nominal |-> nominal, metadata |-> metadata, img |-> img]

InitFresh ==
    /\ env \in [mutagen : BOOLEAN, pil : BOOLEAN]
    /\ disk = [p \in {1} |-> BlankFile]
    /\ last = NoCall
    /\ batch = Fresh("fresh", TRUE, NoText, EmptyBlob)
    /\ norm = NormIdle

FreshEvaluate ==
    /\ batch.pc = "fresh"
    /\ \E o \in Outcomes :
         LET r == has_embedded_artwork(disk[1], o[1], o[2], env)
         IN /\ disk' = [disk EXCEPT ![1] = r.file]
            /\ last' = Call("has", 1, r.ret, EmptyBlob, o[1], o[2], disk[1], r.purge)
            /\ batch' = [batch EXCEPT !.pc = "evaluated",
                                      !.nominal = @ /\ o[1] = "ok" /\ o[2]]
    /\ UNCHANGED <<env, norm>>

FreshMetadata ==
    /\ batch.pc = "evaluated"
    /\ \E parse \in {"ok", "none", "raise"} :
         LET m == get_music_metadata(disk[1], parse, env.mutagen)
         IN /\ last' = Call("metadata", 1, IF m.status = "ok" THEN T ELSE Raise,
                             EmptyBlob, parse, TRUE, disk[1], FALSE)
            /\ batch' = [batch EXCEPT !.pc = "extracted",
                                      !.nominal = @ /\ parse = "ok",
                                      !.metadata = m.metadata]
    /\ UNCHANGED <<disk, env, norm>>

FreshEmbed ==
    /\ batch.pc = "extracted"
    /\ \E img \in EmbedBlobs, o \in Outcomes :
         LET r == embed_artwork(disk[1], img, o[1], o[2], env.mutagen)
         IN /\ disk' = [disk EXCEPT ![1] = r.file]
            /\ last' = Call("embed", 1, r.ret, img, o[1], o[2], disk[1], FALSE)
            /\ batch' = [batch EXCEPT !.pc = "embedded",
                                      !.nominal = @ /\ o[1] = "ok" /\ o[2],
                                      !.img = img]
    /\ UNCHANGED <<env, norm>>

FreshReevaluate ==
    /\ batch.pc = "embedded"
    /\ \E o \in Outcomes :
         LET r == has_embedded_artwork(disk[1], o[1], o[2], env)
         IN /\ disk' = [disk EXCEPT ![1] = r.file]
            /\ last' = Call("has", 1, r.ret, EmptyBlob, o[1], o[2], disk[1], r.purge)
            /\ batch' = [batch EXCEPT !.pc = "reevaluated",
                                      !.nominal = @ /\ o[1] = "ok" /\ o[2]]
    /\ UNCHANGED <<env, norm>>

NextFresh ==
    \/ FreshEvaluate
    \/ FreshMetadata
    \/ FreshEmbed
    \/ FreshReevaluate

SpecFresh == InitFresh /\ [][NextFresh]_vars

\* --------------------------------------------------------- the search URL
\* A Python str is the sequence of its characters; None is Absent, which is no
\* string (no character is "None"), and a list that is None is AbsentList.
Absent == <<Nil>>
AbsentList == <<Absent>>

\* `if value:` on an optional str, and on an optional list
Given(v) == v # <<>> /\ v # Absent

GivenList(v) == v # <<>> /\ v # AbsentList

\* str.lower(), on the upper-case letters the inputs use
lower_char(c) ==
    CASE c = "A" -> "a" [] c = "B" -> "b" [] c = "C" -> "c" [] c = "D" -> "d"
      [] c = "F" -> "f" [] c = "L" -> "l" [] c = "O" -> "o" [] c = "S" -> "s"
      [] c = "E" -> "e" [] c = "G" -> "g" [] c = "I" -> "i" [] c = "M" -> "m"
      [] OTHER -> c

lower(s) == [i \in 1..Len(s) |-> lower_char(s[i])]

RECURSIVE lstrip(_)
lstrip(s) == IF s # <<>> /\ s[1] = " " THEN lstrip(Tail(s)) ELSE s

RECURSIVE rstrip(_)
rstrip(s) == IF s # <<>> /\ s[Len(s)] = " " THEN rstrip(SubSeq(s, 1, Len(s) - 1)) ELSE s

strip(s) == rstrip(lstrip(s))

RECURSIVE join(_, _)
\* sep.join(parts)
join(parts, sep) ==
    IF parts = <<>> THEN <<>>
    ELSE IF Len(parts) = 1 THEN parts[1]
    ELSE parts[1] \o sep \o join(Tail(parts), sep)

\* the characters quote_plus escapes, with their two hex digits
Escaped == {"&", ",", "=", "?", "+", "%", "/", ":", "#"}

hex(c) ==
    CASE c = "&" -> <<"2", "6">> [] c = "," -> <<"2", "C">> [] c = "=" -> <<"3", "D">>
      [] c = "?" -> <<"3", "F">> [] c = "+" -> <<"2", "B">> [] c = "%" -> <<"2", "5">>
      [] c = "/" -> <<"2", "F">> [] c = ":" -> <<"3", "A">> [] c = "#" -> <<"2", "3">>

\* urllib.parse.quote_plus: letters, digits and _ . - ~ stay, a blank becomes '+',
\* anything else %XX
quote_char(c) ==
    IF c = " " THEN <<"+">>
    ELSE IF c \in Escaped THEN <<"%">> \o hex(c)
    ELSE <<c>>

RECURSIVE quote_plus(_)
quote_plus(s) == IF s = <<>> THEN <<>> ELSE quote_char(s[1]) \o quote_plus(Tail(s))

\* urllib.parse.urlencode of a dict, given as its (key, value) pairs in
\* insertion order
urlencode(params) ==
    join([i \in 1..Len(params) |->
             quote_plus(params[i][1]) \o <<"=">> \o quote_plus(params[i][2])], <<"&">>)

K_theme == <<"t", "h", "e", "m", "e">>
K_resolution == <<"r", "e", "s", "o", "l", "u", "t", "i", "o", "n">>
K_sources == <<"s", "o", "u", "r", "c", "e", "s">>
K_country == <<"c", "o", "u", "n", "t", "r", "y">>
K_artist == <<"a", "r", "t", "i", "s", "t">>
K_album == <<"a", "l", "b", "u", "m">>
K_identifier == <<"i", "d", "e", "n", "t", "i", "f", "i", "e", "r">>
V_light == <<"l", "i", "g", "h", "t">>
V_dark == <<"d", "a", "r", "k">>

\* [s.lower().strip() for s in sources if s]
sources_clean(sources) ==
    LET kept == SelectSeq(sources, LAMBDA x : x # <<>>)
    IN [i \in 1..Len(kept) |-> strip(lower(kept[i]))]

\* the separator is '?' whatever base_url holds
build_url_with_params_question(base_url, theme, resolution, sources, country, artist, album, identifier) ==
    LET params ==
          (IF Given(theme) /\ lower(theme) \in {V_light, V_dark}
           THEN << <<K_theme, lower(theme)>> >> ELSE <<>>)
          \o (IF Given(resolution) THEN << <<K_resolution, resolution>> >> ELSE <<>>)
          \o (IF GivenList(sources)
              THEN << <<K_sources, join(sources_clean(sources), <<",">>)>> >> ELSE <<>>)
          \o (IF Given(country) THEN << <<K_country, country>> >> ELSE <<>>)
          \o (IF Given(artist) THEN << <<K_artist, artist>> >> ELSE <<>>)
          \o (IF Given(album) THEN << <<K_album, album>> >> ELSE <<>>)
          \o (IF Given(identifier) THEN << <<K_identifier, identifier>> >> ELSE <<>>)
    IN IF params # <<>>
       THEN base_url \o <<"?">> \o urlencode(params)
       ELSE base_url

\* app/url_builder.py
build_url_with_params(base_url, theme, resolution, sources, country, artist, album, identifier) ==
    LET params ==
          (IF Given(theme) /\ lower(theme) \in {V_light, V_dark}
           THEN << <<K_theme, lower(theme)>> >> ELSE <<>>)
          \o (IF Given(resolution) THEN << <<K_resolution, resolution>> >> ELSE <<>>)
          \o (IF GivenList(sources)
              THEN << <<K_sources, join(sources_clean(sources), <<",">>)>> >> ELSE <<>>)
          \o (IF Given(country) THEN << <<K_country, country>> >> ELSE <<>>)
          \o (IF Given(artist) THEN << <<K_artist, artist>> >> ELSE <<>>)
          \o (IF Given(album) THEN << <<K_album, album>> >> ELSE <<>>)
          \o (IF Given(identifier) THEN << <<K_identifier, identifier>> >> ELSE <<>>)
        separator == IF \E i \in 1..Len(base_url) : base_url[i] = "?" THEN <<"&">> ELSE <<"?">>
    IN IF params # <<>>
       THEN base_url \o separator \o urlencode(params)
       ELSE base_url

\* yumebyo/components/webMetadataFetcher.py: the same function under another name
build_musichoarders_url_with_params(base_url, theme, resolution, sources, country, artist, album, identifier) ==
    LET params ==
          (IF Given(theme) /\ lower(theme) \in {V_light, V_dark}
           THEN << <<K_theme, lower(theme)>> >> ELSE <<>>)
          \o (IF Given(resolution) THEN << <<K_resolution, resolution>> >> ELSE <<>>)
          \o (IF GivenList(sources)
              THEN << <<K_sources, join(sources_clean(sources), <<",">>)>> >> ELSE <<>>)
          \o (IF Given(country) THEN << <<K_country, country>> >> ELSE <<>>)
          \o (IF Given(artist) THEN << <<K_artist, artist>> >> ELSE <<>>)
          \o (IF Given(album) THEN << <<K_album, album>> >> ELSE <<>>)
          \o (IF Given(identifier) THEN << <<K_identifier, identifier>> >> ELSE <<>>)
        separator == IF \E i \in 1..Len(base_url) : base_url[i] = "?" THEN <<"&">> ELSE <<"?">>
    IN IF params # <<>>
       THEN base_url \o separator \o urlencode(params)
       ELSE base_url

\* the arguments a caller passes: the service's address, without and with a
\* query string; fields absent, empty, plain, with blanks, capitals and '&'
BaseUrls ==
    {<<"h", "t", "t", "p", "s", ":", "/", "/", "c", "o", "v", "e", "r", "s", ".", "m", 
       "u", "s", "i", "c", "h", "o", "a", "r", "d", "e", "r", "s", ".", "x", "y", "z">>,
     <<"h", "t", "t", "p", ":", "/", "/", "h", "/", "s", "?", "q", "=", "1">>,
     <<"h", "?">>}
Themes == {Absent, <<"d", "a", "r", "k">>, <<"L", "i", "g", "h", "t">>, <<"b", "l", "u", "e">>}
Resolutions == {Absent, <<"1", "2", "0", "0">>}
SourceLists ==
    {AbsentList, <<>>, << <<>> >>,
     << <<"s", "p", "o", "t", "i", "f", "y">>,
        <<"a", "p", "p", "l", "e", "m", "u", "s", "i", "c">> >>,
     << <<"S", "p", "o", "t", "i", "f", "y">>, <<>>, <<"b">> >>,
     << <<" ", "d", "e", "e", "z", "e", "r", " ">> >>}
Countries == {Absent, <<"f", "r">>}
Artists == {Absent, <<>>, <<"a", " ", "b">>, <<"A", "&", "B">>}
Albums == {Absent, <<"t">>}
Identifiers == {Absent, <<"7">>}

UrlArgs ==
    [base_url : BaseUrls, theme : Themes, resolution : Resolutions,
     sources : SourceLists, country : Countries, artist : Artists,
     album : Albums, identifier : Identifiers]

UrlCall(fn, a, url) == [op |-> fn, args |-> a, url |-> url]

\* a caller about to call one of the two builders with the arguments args
InitUrl ==
    /\ env = [mutagen |-> TRUE, pil |-> TRUE]
    /\ disk = <<>>
    /\ last \in {UrlCall("call", a, <<>>) : a \in UrlArgs}
    /\ batch = BatchIdle
    /\ norm = NormIdle

BuildUrlWithParams ==
    /\ last.op = "call"
    /\ LET a == last.args
       IN last' = UrlCall("build_url_with_params", a,
                          build_url_with_params(a.base_url, a.theme, a.resolution, a.sources,
                                                a.country, a.artist, a.album, a.identifier))
    /\ UNCHANGED <<disk, env, batch, norm>>

BuildMusichoardersUrlWithParams ==
    /\ last.op = "call"
    /\ LET a == last.args
       IN last' = UrlCall("build_musichoarders_url_with_params", a,
                          build_musichoarders_url_with_params(a.base_url, a.theme,
                                                a.resolution, a.sources, a.country, a.artist,
                                                a.album, a.identifier))
    /\ UNCHANGED <<disk, env, batch, norm>>

NextUrl ==
    \/ BuildUrlWithParams
    \/ BuildMusichoardersUrlWithParams

SpecUrl == InitUrl /\ [][NextUrl]_vars

\* ------------------------------------------------------ the folder scanner
\* The folder tree: root says what folder_path names ("dir", "file", "missing");
\* an entry is a path below it, as the sequence of its names, and its type.
FsEntry(path, type) == [path |-> path, type |-> type]

\* the entries a tree is drawn from: music files in lower and upper case, other
\* files, a name that is only a suffix, sub-folders (one named like a music file)
Universe ==
    {FsEntry(<<<<"a", ".", "m", "p", "3">>>>, "file"), FsEntry(<<<<"B", ".", "F", "L", "A", "C">>>>, "file"),
     FsEntry(<<<<"c", ".", "t", "x", "t">>>>, "file"), FsEntry(<<<<".", "m", "p", "3">>>>, "file"),
     FsEntry(<<<<"s">>>>, "dir"), FsEntry(<<<<"e", ".", "o", "g", "g">>>>, "dir"),
     FsEntry(<<<<"s">>, <<"a", ".", "m", "p", "3">>>>, "file"), FsEntry(<<<<"s">>, <<"z", ".", "O", "p", "u", "s">>>>, "file"),
     FsEntry(<<<<"e", ".", "o", "g", "g">>, <<"f", ".", "w", "a", "v">>>>, "file"),
     FsEntry(<<<<"s">>, <<"t">>>>, "dir"), FsEntry(<<<<"s">>, <<"t">>, <<"g", ".", "a", "a", "c">>>>, "file")}

\* every entry lies in a folder of the tree
Trees ==
    {t \in SUBSET Universe :
        \A e \in t : Len(e.path) > 1 =>
            FsEntry(SubSeq(e.path, 1, Len(e.path) - 1), "dir") \in t}

Folders ==
    {[root |-> "dir", entries |-> t] : t \in Trees}
    \cup {[root |-> k, entries |-> {}] : k \in {"file", "missing"}}

folder_path == <<"r">>

music_extensions ==
    {<<".", "m", "p", "3">>, <<".", "f", "l", "a", "c">>, <<".", "m", "4", "a">>, <<".", "m", "p", "4">>, <<".", "o", "g", "g">>, <<".", "o", "g", "a">>, <<".", "o", "p", "u", "s">>, <<".", "w", "a", "v">>, <<".", "a", "a", "c">>}

\* PurePath.suffix: from the last dot of the name, unless that dot starts or ends it
suffix(name) ==
    LET dots == {i \in 1..Len(name) : name[i] = "."}
    IN IF dots = {} THEN <<>>
       ELSE LET i == CHOOSE j \in dots : \A k \in dots : k <= j
            IN IF 1 < i /\ i < Len(name) THEN SubSeq(name, i, Len(name)) ELSE <<>>

\* str(file_path)
path_str(path) == folder_path \o <<"/">> \o join(path, <<"/">>)

\* the characters of the model in code point order
Codepoints ==
    <<".", "/", "3", "A", "B", "C", "F", "L", "O", "a", "c", "e", "f", "g", "m", "o",
      "p", "r", "s", "t", "u", "v", "w", "x", "z">>

ord(c) == CHOOSE i \in 1..Len(Codepoints) : Codepoints[i] = c

RECURSIVE str_lt(_, _)
\* a < b on two str
str_lt(a, b) ==
    IF b = <<>> THEN FALSE
    ELSE IF a = <<>> THEN TRUE
    ELSE IF a[1] # b[1] THEN ord(a[1]) < ord(b[1])
    ELSE str_lt(Tail(a), Tail(b))

RECURSIVE sorted(_)
\* sorted() of a list of distinct str, given as the set of its elements
sorted(items) ==
    IF items = {} THEN <<>>
    ELSE LET least == CHOOSE x \in items : \A y \in items \ {x} : str_lt(x, y)
         IN <<least>> \o sorted(items \ {least})

\* the suffix compared as it is spelled
get_local_music_file_paths_cased(fs, recursive) ==
    IF fs.root # "dir" THEN <<>>
    ELSE LET walked == IF recursive THEN fs.entries
                       ELSE {e \in fs.entries : Len(e.path) = 1}
             music_files == {e \in walked : /\ e.type = "file"
                                            /\ suffix(e.path[Len(e.path)]) \in music_extensions}
         IN sorted({path_str(e.path) : e \in music_files})

\* walked: what folder.rglob('*') or folder.iterdir() yields
get_local_music_file_paths(fs, recursive) ==
    IF fs.root # "dir" THEN <<>>
    ELSE LET walked == IF recursive THEN fs.entries
                       ELSE {e \in fs.entries : Len(e.path) = 1}
             music_files == {e \in walked : /\ e.type = "file"
                                            /\ lower(suffix(e.path[Len(e.path)])) \in music_extensions}
         IN sorted({path_str(e.path) : e \in music_files})

\* app/file_scanner.py: the same function under another name
scan_folder_for_music_files(fs, recursive) ==
    IF fs.root # "dir" THEN <<>>
    ELSE LET walked == IF recursive THEN fs.entries
                       ELSE {e \in fs.entries : Len(e.path) = 1}
             music_files == {e \in walked : /\ e.type = "file"
                                            /\ lower(suffix(e.path[Len(e.path)])) \in music_extensions}
         IN sorted({path_str(e.path) : e \in music_files})

ScanCall(fn, recursive, result) == [op |-> fn, recursive |-> recursive, result |-> result]

\* a caller about to scan the folder, recursively or not
InitScan ==
    /\ env = [mutagen |-> TRUE, pil |-> TRUE]
    /\ disk \in Folders
    /\ last \in {ScanCall("call", r, <<>>) : r \in BOOLEAN}
    /\ batch = BatchIdle
    /\ norm = NormIdle

GetLocalMusicFilePaths ==
    /\ last.op = "call"
    /\ last' = ScanCall("get_local_music_file_paths", last.recursive,
                        get_local_music_file_paths(disk, last.recursive))
    /\ UNCHANGED <<disk, env, batch, norm>>

ScanFolderForMusicFiles ==
    /\ last.op = "call"
    /\ last' = ScanCall("scan_folder_for_music_files", last.recursive,
                        scan_folder_for_music_files(disk, last.recursive))
    /\ UNCHANGED <<disk, env, batch, norm>>

NextScan ==
    \/ GetLocalMusicFilePaths
    \/ ScanFolderForMusicFiles

SpecScan == InitScan /\ [][NextScan]_vars

\* ------------------------------------------------------------ the download
\* What requests.get meets: a network exception, an HTTP error status (which
\* raise_for_status turns into an exception), or a 2xx reply with its
\* Content-Type header ('' when the header is missing) and its body.
ContentTypes ==
    {<<>>,
     <<"i", "m", "a", "g", "e", "/", "p", "n", "g">>,
     <<"I", "M", "A", "G", "E", "/", "G", "I", "F">>,
     <<"t", "e", "x", "t", "/", "h", "t", "m", "l">>,
     <<"a", "p", "p", "l", "i", "c", "a", "t", "i", "o", "n", "/", "j", "s", "o", "n">>}

Reply(http, content_type, content) ==
    [http |-> http, content_type |-> content_type, content |-> content]

Replies ==
    {Reply(h, <<>>, EmptyBlob) : h \in {"exception", "error"}}
    \cup {Reply("ok", t, d) : t \in ContentTypes, d \in NetBlobs}

\* sub in s
contains(s, sub) ==
    \E i \in 1..(Len(s) - Len(sub) + 1) : SubSeq(s, i, i + Len(sub) - 1) = sub

\* the bytes are handed on whatever the Content-Type
checked_response_any(reply) ==
    IF reply.http # "ok" THEN [status |-> "fail", blob |-> EmptyBlob]
    ELSE Ok(reply.content)

\* requests.get, raise_for_status and the Content-Type test, the same in
\* download_artwork_image and in download_and_embed_artwork_using_url
checked_response(reply) ==
    IF reply.http # "ok" THEN [status |-> "fail", blob |-> EmptyBlob]
    ELSE IF contains(lower(reply.content_type), <<"i", "m", "a", "g", "e">>)
    THEN Ok(reply.content)
    ELSE [status |-> "notimage", blob |-> EmptyBlob]

Download(op, reply, page, o, ret, data, pre) ==
    [op |-> op, reply |-> reply, page |-> page, parse |-> o[1], saveOk |-> o[2],
     ret |-> ret, data |-> data, pre |-> pre]

\* a caller about to download from a URL that answers with reply, for the file
\* on disk
InitDownload ==
    /\ env \in [mutagen : BOOLEAN, pil : BOOLEAN]
    /\ disk \in [{1} -> BatchFiles]
    /\ last \in {Download("call", r, page, o, Nil, EmptyBlob, BlankFile) :
                    r \in Replies, page \in {"found", "none", "raise"}, o \in Outcomes}
    /\ batch = BatchIdle
    /\ norm = NormIdle

DownloadArtworkImage ==
    /\ last.op = "call"
    /\ LET image_data == download_artwork_image(checked_response(last.reply))
       IN last' = [last EXCEPT !.op = "download_artwork_image",
                               !.ret = IF image_data.status = "ok" THEN "bytes" ELSE Nil,
                               !.data = image_data.blob,
                               !.pre = disk[1]]
    /\ UNCHANGED <<disk, env, batch, norm>>

DownloadAndEmbedArtwork ==
    /\ last.op = "call"
    /\ LET r == download_and_embed_artwork(disk[1], last.page, checked_response(last.reply),
                                           last.parse, last.saveOk, env.mutagen)
       IN /\ disk' = [disk EXCEPT ![1] = r.file]
          /\ last' = [last EXCEPT !.op = "download_and_embed_artwork",
                                  !.ret = r.ret, !.data = r.img, !.pre = disk[1]]
    /\ UNCHANGED <<env, batch, norm>>

DownloadAndEmbedArtworkUsingUrl ==
    /\ last.op = "call"
    /\ \E square \in BOOLEAN, downscale_to_480 \in BOOLEAN :
         LET r == download_and_embed_artwork_using_url(disk[1], checked_response(last.reply),
                                                       square, downscale_to_480,
                                                       last.parse, last.saveOk, env)
         IN /\ disk' = [disk EXCEPT ![1] = r.file]
            /\ last' = [last EXCEPT !.op = "download_and_embed_artwork_using_url",
                                    !.ret = r.ret, !.data = r.img, !.pre = disk[1]]
    /\ UNCHANGED <<env, batch, norm>>

NextDownload ==
    \/ DownloadArtworkImage
    \/ DownloadAndEmbedArtwork
    \/ DownloadAndEmbedArtworkUsingUrl

SpecDownload == InitDownload /\ [][NextDownload]_vars

\* ------------------------------------------------------- the text tags read
\* An ID3 text frame is the list of its strings; str(frame) joins them with a
\* NUL character. audio_file.tags is None (has_tags = FALSE) or maps the names of
\* the frames present to the frames.
NUL == "\\0"

Frame(text) == [type |-> "frame", text |-> text]

Frames == {Frame(<<>>), Frame(<< <<"x">> >>), Frame(<< <<"y">>, <<"z">> >>)}

str(tag_value) == join(tag_value.text, <<NUL>>)

\* _extract_tag_value: None and the empty list give None, a list stands for its
\* first item, anything that is not bytes goes through str()
_extract_tag_value(tag_value) ==
    IF tag_value.type = "none" THEN Absent
    ELSE IF tag_value.type = "list"
    THEN IF tag_value.items = <<>> THEN Absent ELSE str(tag_value.items[1])
    ELSE str(tag_value)

artist_tags == <<"TPE1", "TPE2", "TCOM">>
album_tags == <<"TALB">>
title_tags == <<"TIT2", "TIT1">>

Mp3Tags == {"TPE1", "TPE2", "TCOM", "TALB", "TIT2", "TIT1"}

RECURSIVE tag_loop_first_present(_, _, _)
\* the loop leaving at the first tag present
tag_loop_first_present(tags, names, value) ==
    IF names = <<>> THEN value
    ELSE IF names[1] \in DOMAIN tags
    THEN _extract_tag_value(tags[names[1]])
    ELSE tag_loop_first_present(tags, Tail(names), value)

RECURSIVE tag_loop(_, _, _)
\* for tag in names: if tag in tags: value = ...; if value: break
tag_loop(tags, names, value) ==
    IF names = <<>> THEN value
    ELSE IF names[1] \in DOMAIN tags
    THEN LET v == _extract_tag_value(tags[names[1]])
         IN IF Given(v) THEN v ELSE tag_loop(tags, Tail(names), v)
    ELSE tag_loop(tags, Tail(names), value)

Metadata3(artist, album, title) == [artist |-> artist, album |-> album, title |-> title]

\* get_music_metadata on a file that mutagen opens as MP3
get_music_metadata_mp3(audio_file, parse, mutagen) ==
    IF ~mutagen \/ parse # "ok"
    THEN [status |-> "raise", metadata |-> Metadata3(Absent, Absent, Absent)]
    ELSE IF ~audio_file.has_tags
    THEN [status |-> "ok", metadata |-> Metadata3(Absent, Absent, Absent)]
    ELSE [status |-> "ok",
          metadata |-> Metadata3(tag_loop(audio_file.tags, artist_tags, Absent),
                                 tag_loop(audio_file.tags, album_tags, Absent),
                                 tag_loop(audio_file.tags, title_tags, Absent))]

\* the MP3 files read: without an ID3 header, or with any of the six frames
Mp3Audio ==
    {[has_tags |-> FALSE, tags |-> <<>>]}
    \cup {[has_tags |-> TRUE, tags |-> t] :
            t \in UNION {[S -> Frames] : S \in SUBSET Mp3Tags}}

MetadataCall(op, audio_file, parse, result) ==
    [op |-> op, audio_file |-> audio_file, parse |-> parse, result |-> result]

InitMetadata ==
    /\ env \in [mutagen : BOOLEAN, pil : {TRUE}]
    /\ disk = <<>>
    /\ last \in {MetadataCall("call", a, parse,
                              [status |-> "none", metadata |-> Metadata3(Absent, Absent, Absent)]) :
                    a \in Mp3Audio, parse \in {"ok", "none", "raise"}}
    /\ batch = BatchIdle
    /\ norm = NormIdle

GetMusicMetadata ==
    /\ last.op = "call"
    /\ last' = [last EXCEPT
                  !.op = "get_music_metadata",
                  !.result = get_music_metadata_mp3(last.audio_file, last.parse, env.mutagen)]
    /\ UNCHANGED <<disk, env, batch, norm>>

NextMetadata == GetMusicMetadata

SpecMetadata == InitMetadata /\ [][NextMetadata]_vars

\* -------------------------------------------------------------- the browser
\* app/browser.py and yumebyo/components/webMetadataFetcher.py each hold the
\* globals _p, _browser and _context and the same three functions. A Playwright
\* object is named by the number of the call that made it; NoObject is None.
MaxCalls == 4

NoObject == 0

BrowserModules == {"app.browser", "webMetadataFetcher"}

Globals(p, browser, context) == [_p |-> p, _browser |-> browser, _context |-> context]

\* where init_browser stops: an exception of sync_playwright().start(), of
\* firefox.launch or of new_context, or none
InitOutcomes == {"start", "launch", "new_context", "returned"}

BrowserCall(m, op, ret) == [module |-> m, op |-> op, ret |-> ret]

Calls(log) == [pc |-> "calls", log |-> log]

InitBrowserSpec ==
    /\ env = [mutagen |-> TRUE, pil |-> TRUE,
              globals |-> [m \in BrowserModules |-> Globals(NoObject, NoObject, NoObject)]]
    /\ disk = <<>>
    /\ last = NoCall
    /\ batch = Calls(<<>>)
    /\ norm = NormIdle

\* _context is handed out without the test for None
get_context_unguarded(g) == [ret |-> "context", context |-> g._context]

get_context(g) ==
    IF g._context = NoObject THEN [ret |-> "RuntimeError", context |-> NoObject]
    ELSE [ret |-> "context", context |-> g._context]

init_browser(g, outcome, id) ==
    CASE outcome = "start" -> g
      [] outcome = "launch" -> [g EXCEPT !._p = id]
      [] outcome = "new_context" -> [g EXCEPT !._p = id, !._browser = id]
      [] OTHER -> Globals(id, id, id)

close_browser(g) == Globals(NoObject, NoObject, NoObject)

InitBrowser(m) ==
    /\ batch.pc = "calls" /\ Len(batch.log) < MaxCalls
    /\ \E outcome \in InitOutcomes :
         LET id == Len(batch.log) + 1
             ret == IF outcome = "returned" THEN Nil ELSE Raise
         IN /\ env' = [env EXCEPT !.globals[m] = init_browser(@, outcome, id)]
            /\ batch' = Calls(Append(batch.log, BrowserCall(m, "init_browser", ret)))
    /\ UNCHANGED <<disk, last, norm>>

GetContext(m) ==
    /\ batch.pc = "calls" /\ Len(batch.log) < MaxCalls
    /\ batch' = Calls(Append(batch.log,
                             BrowserCall(m, "get_context", get_context(env.globals[m]).ret)))
    /\ UNCHANGED <<disk, env, last, norm>>

CloseBrowser(m) ==
    /\ batch.pc = "calls" /\ Len(batch.log) < MaxCalls
    /\ env' = [env EXCEPT !.globals[m] = close_browser(@)]
    /\ batch' = Calls(Append(batch.log, BrowserCall(m, "close_browser", Nil)))
    /\ UNCHANGED <<disk, last, norm>>

NextBrowser ==
    \/ \E m \in BrowserModules : InitBrowser(m)
    \/ \E m \in BrowserModules : GetContext(m)
    \/ \E m \in BrowserModules : CloseBrowser(m)

SpecBrowser == InitBrowserSpec /\ [][NextBrowser]_vars

\* ------------------------------------------------------ the batch run again
\* yumebyo() called a second time on the folder as the first call left it.
\* first: the with_artwork list the first call returned.
InitTwice ==
    /\ env \in [mutagen : {TRUE}, pil : BOOLEAN]
    /\ disk \in [1..NumFiles -> BatchFiles]
    /\ last = NoCall
    /\ batch = BatchIdle
    /\ norm = NormIdle

SecondRun == "first" \in DOMAIN batch

\* the first call has returned; the second passes the dependency check and
\* enters its loop with fresh result lists
Rerun ==
    /\ batch.pc = "done" /\ ~SecondRun
    /\ batch' = [pc |-> "eval", i |-> 1, with_artwork |-> <<>>, without_artwork |-> <<>>,
                 artwork_urls |-> {}, first |-> batch.with_artwork]
    /\ last' = NoCall
    /\ UNCHANGED <<disk, env, norm>>

NextTwice ==
    \/ Start
    \/ Evaluate
    \/ Metadata
    \/ MusicHoarders
    \/ Youtube
    \/ Finish
    \/ Rerun

SpecTwice == InitTwice /\ [][NextTwice]_vars

\* ------------------------------------------- the search URL of the batch loop
\* The part of the loop body between get_music_metadata and the download: the
\* test on the metadata and the call of the URL builder.
default_base_url ==
    <<"h", "t", "t", "p", "s", ":", "/", "/", "c", "o", "v", "e", "r", "s", ".", "m",
      "u", "s", "i", "c", "h", "o", "a", "r", "d", "e", "r", "s", ".", "x", "y", "z">>

loop_sources ==
    << <<"s", "p", "o", "t", "i", "f", "y">>,
       <<"a", "p", "p", "l", "e", "m", "u", "s", "i", "c">> >>

\* what get_music_metadata returned for the file: each field None, '' or a text
TagTexts == {Absent, <<>>, <<"x">>, <<"A", "&", "B">>}

LoopMetadata == {Metadata3(a, b, t) : a \in TagTexts, b \in TagTexts, t \in TagTexts}

UrlStep(op, base_url, metadata, generated, url) ==
    [op |-> op, args |-> [base_url |-> base_url], metadata |-> metadata,
     generated |-> generated, url |-> url]

InitSearchUrl ==
    /\ env = [mutagen |-> TRUE, pil |-> TRUE]
    /\ disk = <<>>
    /\ last \in {UrlStep("call", b, m, FALSE, <<>>) : b \in BaseUrls, m \in LoopMetadata}
    /\ batch = BatchIdle
    /\ norm = NormIdle

\* yumebyo: results['artwork_urls_musichoarders'][file_path] is set under
\* 'if metadata['artist'] or metadata['album']'
YumebyoUrl ==
    /\ last.op = "call" /\ last.args.base_url = default_base_url
    /\ LET metadata == last.metadata
       IN last' = IF Given(metadata.artist) \/ Given(metadata.album)
                  THEN UrlStep("yumebyo", last.args.base_url, metadata, TRUE,
                               build_musichoarders_url_with_params(
                                   default_base_url, Absent, Absent, loop_sources, Absent,
                                   metadata.artist, metadata.title, Absent))
                  ELSE UrlStep("yumebyo", last.args.base_url, metadata, FALSE, <<>>)
    /\ UNCHANGED <<disk, env, batch, norm>>

\* process_folder_for_artwork: the same with the caller's base_url
ProcessorUrl ==
    /\ last.op = "call"
    /\ LET metadata == last.metadata
       IN last' = IF Given(metadata.artist) \/ Given(metadata.album)
                  THEN UrlStep("process_folder_for_artwork", last.args.base_url, metadata, TRUE,
                               build_url_with_params(
                                   last.args.base_url, Absent, Absent, loop_sources, Absent,
                                   metadata.artist, metadata.title, Absent))
                  ELSE UrlStep("process_folder_for_artwork", last.args.base_url, metadata,
                               FALSE, <<>>)
    /\ UNCHANGED <<disk, env, batch, norm>>

NextSearchUrl ==
    \/ YumebyoUrl
    \/ ProcessorUrl

SpecSearchUrl == InitSearchUrl /\ [][NextSearchUrl]_vars

\* ------------------------------------------------ the CLI and the page fetch
\* main() of main.py, on the globals of app.browser, and a caller of
\* fetch_first_artwork_image, which reads the globals of webMetadataFetcher.
\* closes: the calls of close_browser main has made; opened, closed: the pages
\* fetch_first_artwork_image has opened and closed so far.
Main(pc, result, inited, closes) ==
    [pc |-> pc, result |-> result, inited |-> inited, closes |-> closes]

Fetches(n, ret, opened, closed) ==
    [n |-> n, ret |-> ret, opened |-> opened, closed |-> closed]

\* where fetch_first_artwork_image stops once it has a context: an exception of
\* new_page, of goto or of the query for img elements, or a return with the
\* first image URL found or with None (a timeout of wait_for_selector is
\* caught and changes nothing)
PageOutcomes == {"new_page", "goto", "query", "found", "none"}

fetch_first_artwork_image(g, outcome) ==
    IF get_context(g).ret = "RuntimeError" THEN [ret |-> Raise, opened |-> 0, closed |-> 0]
    ELSE IF outcome = "new_page" THEN [ret |-> Raise, opened |-> 0, closed |-> 0]
    ELSE IF outcome \in {"goto", "query"} THEN [ret |-> Raise, opened |-> 1, closed |-> 1]
    ELSE [ret |-> IF outcome = "found" THEN "url" ELSE Nil, opened |-> 1, closed |-> 1]

InitMain ==
    /\ env \in {[mutagen |-> TRUE, pil |-> TRUE,
                 globals |-> [m \in BrowserModules |->
                                 IF m = "webMetadataFetcher" THEN g
                                 ELSE Globals(NoObject, NoObject, NoObject)]] :
                   g \in {Globals(NoObject, NoObject, NoObject), Globals(1, 1, 1)}}
    /\ disk = <<>>
    /\ last = Fetches(0, Nil, 0, 0)
    /\ batch = Main("start", Nil, FALSE, 0)
    /\ norm = NormIdle

\* main.py line 28, outside the try
MainInitBrowser ==
    /\ batch.pc = "start"
    /\ \E outcome \in InitOutcomes :
         /\ env' = [env EXCEPT !.globals["app.browser"] = init_browser(@, outcome, 2)]
         /\ batch' = IF outcome = "returned" THEN Main("try", Nil, TRUE, 0)
                     ELSE Main("raised", Raise, FALSE, 0)
    /\ UNCHANGED <<disk, last, norm>>

\* an exception leaves main at once
MainProcessNoFinally ==
    /\ batch.pc = "try"
    /\ \E result \in {"returned", "Exception", "BaseException"} :
         batch' = IF result = "returned" THEN [batch EXCEPT !.pc = "finally", !.result = result]
                  ELSE [batch EXCEPT !.pc = "raised", !.result = result]
    /\ UNCHANGED <<disk, env, last, norm>>

\* the try body: process_folder_for_artwork returns, raises an Exception (caught
\* and printed) or raises something else; control reaches the finally clause
MainProcess ==
    /\ batch.pc = "try"
    /\ \E result \in {"returned", "Exception", "BaseException"} :
         batch' = [batch EXCEPT !.pc = "finally", !.result = result]
    /\ UNCHANGED <<disk, env, last, norm>>

\* the finally clause: sleep, close_browser(); then main returns, or the
\* exception that was not caught goes on
MainFinally ==
    /\ batch.pc = "finally"
    /\ env' = [env EXCEPT !.globals["app.browser"] = close_browser(@)]
    /\ batch' = [batch EXCEPT !.pc = IF batch.result = "BaseException" THEN "raised"
                                     ELSE "returned",
                              !.closes = @ + 1]
    /\ UNCHANGED <<disk, last, norm>>

FetchFirstArtworkImage ==
    /\ last.n < MaxCalls
    /\ \E outcome \in PageOutcomes :
         LET r == fetch_first_artwork_image(env.globals["webMetadataFetcher"], outcome)
         IN last' = Fetches(last.n + 1, r.ret, last.opened + r.opened, last.closed + r.closed)
    /\ UNCHANGED <<disk, env, batch, norm>>

NextMain ==
    \/ MainInitBrowser
    \/ MainProcess
    \/ MainFinally
    \/ FetchFirstArtworkImage

SpecMain == InitMain /\ [][NextMain]_vars

\* ------------------------------------------------- the thumbnail selection
\* A value of a thumbnail dict under "width" or "height": missing or None, an
\* int, or a str of digits. An entry of the list is a dict or something else.
MaxThumbs == 3

NoneValue == [type |-> "none"]
IntValue(n) == [type |-> "int", v |-> n]
StrValue(s) == [type |-> "str", digits |-> s]

Thumb(url, width, height) == [dict |-> TRUE, url |-> url, width |-> width, height |-> height]

NotADict == [dict |-> FALSE, url |-> Absent, width |-> NoneValue, height |-> NoneValue]

digit(c) ==
    CASE c = "0" -> 0 [] c = "1" -> 1 [] c = "2" -> 2 [] c = "3" -> 3 [] c = "4" -> 4
      [] c = "5" -> 5 [] c = "6" -> 6 [] c = "7" -> 7 [] c = "8" -> 8 [] c = "9" -> 9

RECURSIVE int_of_digits(_, _)
int_of_digits(s, acc) ==
    IF s = <<>> THEN acc ELSE int_of_digits(Tail(s), 10 * acc + digit(s[1]))

\* int(thumb.get(key, 0) or 0)
int_or_0(value) ==
    CASE value.type = "none" -> 0
      [] value.type = "int" -> value.v
      [] value.type = "str" -> IF value.digits = <<>> THEN 0
                               ELSE int_of_digits(value.digits, 0)

RECURSIVE best_thumbnail_last(_, _, _)
\* a later entry of the same area replaces the best one
best_thumbnail_last(thumbnails, best_url, best_area) ==
    IF thumbnails = <<>> THEN best_url
    ELSE LET thumb == thumbnails[1]
             width == int_or_0(thumb.width)
             height == int_or_0(thumb.height)
         IN IF ~thumb.dict THEN best_thumbnail_last(Tail(thumbnails), best_url, best_area)
            ELSE IF ~Given(thumb.url) \/ width <= 0 \/ height <= 0
            THEN best_thumbnail_last(Tail(thumbnails), best_url, best_area)
            ELSE IF width * height >= best_area
            THEN best_thumbnail_last(Tail(thumbnails), thumb.url, width * height)
            ELSE best_thumbnail_last(Tail(thumbnails), best_url, best_area)

RECURSIVE best_thumbnail(_, _, _)
\* the for loop shared by the four copies of the selection
best_thumbnail(thumbnails, best_url, best_area) ==
    IF thumbnails = <<>> THEN best_url
    ELSE LET thumb == thumbnails[1]
             width == int_or_0(thumb.width)
             height == int_or_0(thumb.height)
         IN IF ~thumb.dict THEN best_thumbnail(Tail(thumbnails), best_url, best_area)
            ELSE IF ~Given(thumb.url) \/ width <= 0 \/ height <= 0
            THEN best_thumbnail(Tail(thumbnails), best_url, best_area)
            ELSE IF width * height > best_area
            THEN best_thumbnail(Tail(thumbnails), thumb.url, width * height)
            ELSE best_thumbnail(Tail(thumbnails), best_url, best_area)

\* cover_processor.py
_select_best_thumbnail(thumbnails) == best_thumbnail(thumbnails, Absent, -1)

\* youtube_music/get_thumbnail_url.py
_fetch_highest_quality_thumbnail_url(thumbnails) == best_thumbnail(thumbnails, Absent, -1)

\* youtubeMusicMetadataFetcher.py
_select_highest_quality_thumbnail_url(thumbnails) == best_thumbnail(thumbnails, Absent, -1)

\* test.py
_select_highest_quality_thumbnail(thumbnails) == best_thumbnail(thumbnails, Absent, -1)

\* the entries a payload holds: not a dict; without a url, with an empty one;
\* with a zero, missing or negative side; valid ones of areas 1, 2 (twice), 3
\* and 4 (twice, once with the width as a str)
ThumbEntries ==
    {NotADict,
     Thumb(Absent, IntValue(2), IntValue(2)),
     Thumb(<<>>, IntValue(2), IntValue(2)),
     Thumb(<<"z">>, IntValue(0), IntValue(2)),
     Thumb(<<"z">>, IntValue(2), NoneValue),
     Thumb(<<"z">>, IntValue(-2), IntValue(-2)),
     Thumb(<<"a">>, IntValue(1), IntValue(1)),
     Thumb(<<"b">>, IntValue(2), IntValue(1)),
     Thumb(<<"c">>, IntValue(1), IntValue(2)),
     Thumb(<<"d">>, IntValue(3), IntValue(1)),
     Thumb(<<"e">>, IntValue(2), IntValue(2)),
     Thumb(<<"f">>, StrValue(<<"2">>), IntValue(2))}

ThumbCall(op, thumbnails, url) == [op |-> op, thumbnails |-> thumbnails, url |-> url]

InitThumbs ==
    /\ env = [mutagen |-> TRUE, pil |-> TRUE]
    /\ disk = <<>>
    /\ last \in {ThumbCall("call", t, Absent) : t \in SeqsUpTo(ThumbEntries, MaxThumbs)}
    /\ batch = BatchIdle
    /\ norm = NormIdle

SelectBestThumbnail ==
    /\ last.op = "call"
    /\ last' = ThumbCall("_select_best_thumbnail", last.thumbnails,
                         _select_best_thumbnail(last.thumbnails))
    /\ UNCHANGED <<disk, env, batch, norm>>

FetchHighestQualityThumbnailUrl ==
    /\ last.op = "call"
    /\ last' = ThumbCall("_fetch_highest_quality_thumbnail_url", last.thumbnails,
                         _fetch_highest_quality_thumbnail_url(last.thumbnails))
    /\ UNCHANGED <<disk, env, batch, norm>>

SelectHighestQualityThumbnailUrl ==
    /\ last.op = "call"
    /\ last' = ThumbCall("_select_highest_quality_thumbnail_url", last.thumbnails,
                         _select_highest_quality_thumbnail_url(last.thumbnails))
    /\ UNCHANGED <<disk, env, batch, norm>>

SelectHighestQualityThumbnail ==
    /\ last.op = "call"
    /\ last' = ThumbCall("_select_highest_quality_thumbnail", last.thumbnails,
                         _select_highest_quality_thumbnail(last.thumbnails))
    /\ UNCHANGED <<disk, env, batch, norm>>

NextThumbs ==
    \/ SelectBestThumbnail
    \/ FetchHighestQualityThumbnailUrl
    \/ SelectHighestQualityThumbnailUrl
    \/ SelectHighestQualityThumbnail

SpecThumbs == InitThumbs /\ [][NextThumbs]_vars

\* ------------------------------------------------------------------ claims
\* what a read of the file's pictures returns now
ReadNow == _iter_embedded_artwork(disk[last.f])

\* the squareness values has_embedded_artwork saw, in stored order
Squareness(f) ==
    LET pics == _iter_embedded_artwork(f)
    IN [i \in 1..Len(pics) |->
          _is_square_image(pics[i].data, pics[i].width, pics[i].height, env.pil)]

Opened == last.op = "has" /\ env.mutagen /\ last.parse = "ok"

\* C1: after a successful embed_artwork(file, img) a read of the file's pictures
\* yields exactly one picture, whose bytes are img, whatever the container and
\* however many pictures it held before.
C1_EmbedLeavesOnePicture ==
    (last.op = "embed" /\ last.ret = T)
        => (Len(ReadNow) = 1 /\ ReadNow[1].data = last.img)

\* C2: when has_embedded_artwork meets a determinately non-square picture (and the
\* save of the purge does not fail) it returns False and a following read of the
\* file's pictures is empty, for every container kind.
C2_PurgeLeavesNoPicture ==
    (last.op = "has" /\ last.purge /\ last.saveOk)
        => (last.ret = F /\ ReadNow = <<>>)

\* the verdict as a function of the squareness values alone
Verdict(sq) ==
    IF sq = <<>> THEN F
    ELSE IF \E i \in 1..Len(sq) : sq[i] = NotSquare THEN F
    ELSE T

Perms(n) == {q \in [1..n -> 1..n] : \A i, j \in 1..n : i # j => q[i] # q[j]}

Reordered(f, q) == [f EXCEPT !.pics = [i \in 1..Len(f.pics) |-> f.pics[q[i]]]]

\* C3: the verdict of has_embedded_artwork is False on no picture, False when some
\* picture is non-square and True otherwise, and is the same for every order in
\* which the pictures are stored.
C3_VerdictFromSquareness ==
    Opened =>
        /\ last.ret = Verdict(Squareness(last.pre))
        /\ \A q \in Perms(Len(last.pre.pics)) :
              has_embedded_artwork(Reordered(last.pre, q), "ok", last.saveOk, env).ret
                  = last.ret

C3_Witness ==
    /\ Opened
    /\ Len(Squareness(last.pre)) >= 2
    /\ Squareness(last.pre)[1] = Square
    /\ Squareness(last.pre)[2] = NotSquare
    /\ last.ret = F

\* a picture without inline dimensions whose bytes do not decode
Indeterminate(pic) ==
    (pic.width = 0 \/ pic.height = 0) /\ pic.data.form = "garbage"

AllIndeterminate(f) ==
    LET pics == _iter_embedded_artwork(f)
    IN pics # <<>> /\ \A i \in 1..Len(pics) : Indeterminate(pics[i])

\* C4: a file all of whose pictures have no inline dimensions and undecodable bytes
\* evaluates to True, triggers no removal, stays as it was, and nothing is raised.
C4_UndecodableIsIndeterminate ==
    (Opened /\ AllIndeterminate(last.pre))
        => /\ last.ret = T
           /\ ~last.purge
           /\ disk[last.f] = last.pre
           /\ \A i \in 1..Len(Squareness(last.pre)) :
                 Squareness(last.pre)[i] = Unknown

C4_Witness ==
    Opened /\ env.pil /\ AllIndeterminate(last.pre) /\ last.ret = T

\* C5: has_embedded_artwork returns exactly one verdict, True or False, and never
\* raises, also when the removal it triggers fails to save.
C5_VerdictTotal ==
    last.op = "has" => last.ret \in {T, F}

C5_Witness ==
    /\ Opened /\ last.purge /\ ~last.saveOk
    /\ last.ret = F
    /\ disk[last.f] = last.pre

\* the normaliser decoded its input and returned an image
Normalized ==
    /\ norm.pc = "done" /\ env.pil
    /\ Decodable(norm.img) /\ norm.out.status = "ok"

C8_OutputSide ==
    (Normalized /\ norm.square /\ norm.fn \in {"cover", "url"}) =>
        LET side == Min(norm.img.w, norm.img.h)
        IN norm.out.blob.w = (IF norm.force \/ side < TargetSize THEN TargetSize ELSE side)

\* C9: the crop box is side = min(width, height), left = (width - side) div 2,
\* top = (height - side) div 2; it lies inside the image, and the margin cut on
\* the left / top equals the one cut on the right / bottom or is one less.
C9_CropBox ==
    (norm.pc = "done" /\ Decodable(norm.img)) =>
        LET width == norm.img.w
            height == norm.img.h
            side == Min(width, height)
            b == norm.box
        IN /\ b.right - b.left = side /\ b.bottom - b.top = side
           /\ b.left = (width - side) \div 2
           /\ b.top = (height - side) \div 2
           /\ 0 <= b.left /\ b.right <= width
           /\ 0 <= b.top /\ b.bottom <= height
           /\ (width - b.right) - b.left \in {0, 1}
           /\ (height - b.bottom) - b.top \in {0, 1}

C9_Witness ==
    /\ norm.pc = "done" /\ Decodable(norm.img)
    /\ norm.img.w - norm.img.h = 1
    /\ norm.box.left = 0 /\ norm.img.w - norm.box.right = 1

\* C6: every image the batch embeds into a file, on the MusicHoarders path or the
\* YouTube path, has been normalised first: its width equals its height.
C6_BatchEmbedsNormalized ==
    (/\ last.op \in {"embed_mh", "embed_yt"}
     /\ last.ret = T /\ env.pil /\ Decodable(last.img))
        => last.img.w = last.img.h

\* the call of remove_embedded_artwork just made changed the file on disk
RemovalSaved == disk[last.f] # last.pre

\* C11: remove_embedded_artwork returns True exactly when a picture entry was
\* present and its removal was saved; with no picture present it returns False
\* and the file is unchanged; it never raises.
C11_RemoveReturn ==
    last.op = "remove" =>
        /\ last.ret \in {T, F}
        /\ (last.ret = T) <=> (Len(last.pre.pics) > 0 /\ RemovalSaved)
        /\ (Len(last.pre.pics) = 0 => (last.ret = F /\ disk[last.f] = last.pre))

\* what get_music_metadata returns for a file that opens
MetadataOf(f) == get_music_metadata(f, "ok", TRUE).metadata

\* C12: remove_embedded_artwork changes picture entries only: artist, album and
\* title read by get_music_metadata after the call equal those read before it,
\* for every container kind.
C12_RemoveKeepsText ==
    last.op = "remove" =>
        /\ MetadataOf(disk[last.f]) = MetadataOf(last.pre)
        /\ disk[last.f] = [last.pre EXCEPT !.pics = disk[last.f].pics]

C12_Witness ==
    /\ last.op = "remove" /\ last.ret = T
    /\ last.pre.kind = "OTHER"
    /\ MetadataOf(last.pre) = SomeText
    /\ Len(disk[last.f].pics) < Len(last.pre.pics)

Persisted == \E i \in 1..Len(disk[last.f].pics) : disk[last.f].pics[i].data = last.img

\* the outcome of an embed_artwork call: True only with the save done, and on a
\* failed open or save False with the stored pictures as before
EmbedOutcome ==
    /\ last.ret \in {T, F}
    /\ last.ret = T => (last.parse = "ok" /\ last.saveOk /\ Persisted)
    /\ (last.parse # "ok" \/ ~last.saveOk) => last.ret = F
    /\ last.ret = F => disk[last.f].pics = last.pre.pics

Range(seq) == {seq[k] : k \in 1..Len(seq)}

Ascending(seq) == \A j, k \in 1..Len(seq) : j < k => seq[j] < seq[k]

InLoop == batch.pc \in {"eval", "meta", "musichoarders", "youtube"}

\* the files the loop has evaluated so far: all before the current one, and the
\* current one once its evaluation is over
EvaluatedSoFar == 1..(IF batch.pc = "eval" \/ batch.pc = "done" THEN batch.i - 1 ELSE batch.i)

\* each file evaluated so far is in exactly one result list, once, in scan order,
\* and the loop can go on from wherever a failure left it
LoopResults ==
    (InLoop \/ batch.pc = "done") =>
        /\ Ascending(batch.with_artwork) /\ Ascending(batch.without_artwork)
        /\ Range(batch.with_artwork) \cap Range(batch.without_artwork) = {}
        /\ Range(batch.with_artwork) \cup Range(batch.without_artwork) = EvaluatedSoFar
        /\ batch.pc = "done" => EvaluatedSoFar = DOMAIN disk
        /\ InLoop => ENABLED NextBatch

\* the steps left before the loop returns, at most
StepsLeft(b) ==
    CASE b.pc = "idle" -> 4 * Len(disk) + 5
      [] b.pc = "eval" -> 4 * (Len(disk) + 1 - b.i) + 4
      [] b.pc = "meta" -> 4 * (Len(disk) + 1 - b.i) + 3
      [] b.pc = "musichoarders" -> 4 * (Len(disk) + 1 - b.i) + 2
      [] b.pc = "youtube" -> 4 * (Len(disk) + 1 - b.i) + 1
      [] OTHER -> 0

\* a step of the loop: the evaluation is that of the current file, only the
\* current file is touched, the next file starts at its evaluation, nothing
\* raises out of the loop and the work left shrinks
LoopStep ==
    InLoop =>
        /\ StepsLeft(batch') < StepsLeft(batch)
        /\ batch'.pc # "raised"
        /\ batch'.pc # "done" => (last'.f = batch.i /\ (last'.op = "has") = (batch.pc = "eval"))
        /\ \A q \in DOMAIN disk : q # batch.i => disk'[q] = disk[q]
        /\ batch'.pc = "done" => batch.i = Len(disk) + 1
        /\ InLoop' => \/ batch'.i = batch.i /\ batch'.pc # "eval"
                      \/ batch'.i = batch.i + 1 /\ batch'.pc = "eval"

\* C15: the batch loop evaluates every scanned file exactly once, in scan order,
\* finishing one file before the next starts; no failure on a file keeps the
\* remaining files from being processed, and the loop ends returning the results.
C15_BatchLoop == [](LoopResults) /\ [][LoopStep]_vars

C15_Witness ==
    /\ batch.pc = "done" /\ Len(disk) >= 2
    /\ batch.with_artwork = <<2>> /\ batch.without_artwork = <<1>>
    /\ 1 \notin batch.artwork_urls

\* C16: with mutagen unavailable the batch entry point raises ImportError once,
\* before the scan: no file is evaluated, no URL built, no file modified.
C16_FailFast ==
    /\ [](~env.mutagen => (batch.pc \in {"idle", "raised"} /\ last = NoCall))
    /\ [][~env.mutagen => (batch.pc = "idle" /\ batch' = [pc |-> "raised"] /\ disk' = disk)]_vars

C16_Witness == ~env.mutagen /\ batch = [pc |-> "raised"] /\ last = NoCall

\* the calls made so far on the fresh MP3 met no failed open or save, and the
\* bytes embedded (if any yet) are an image
FreshRun ==
    /\ batch.pc \in {"evaluated", "extracted", "embedded", "reevaluated"}
    /\ env.mutagen /\ batch.nominal
    /\ batch.pc \in {"embedded", "reevaluated"} => Decodable(batch.img)

\* the first three calls: no artwork, no text, and the embed succeeds
FreshFirstCalls ==
    /\ batch.pc = "evaluated" => (last.ret = F /\ disk[1] = BlankFile)
    /\ batch.pc = "extracted" => (last.ret = T /\ batch.metadata = NoText)
    /\ batch.pc = "embedded" => (last.ret = T /\ Len(disk[1].pics) = 1)

FreshKept == last.ret = T /\ ~last.purge /\ Len(disk[1].pics) = 1

FreshPurged == last.ret = F /\ last.purge /\ disk[1].pics = <<>>

\* C17 as stated: on an MP3 without tags has_embedded_artwork returns False,
\* get_music_metadata returns None three times, embed_artwork of JPEG bytes
\* succeeds, and the next has_embedded_artwork returns True for a square image
\* and otherwise purges it and returns False, the file again without pictures.
C17_FreshMp3 ==
    FreshRun =>
        /\ FreshFirstCalls
        /\ batch.pc = "reevaluated" =>
              IF batch.img.w = batch.img.h THEN FreshKept ELSE FreshPurged

\* C17 as amended: the purge of the non-square image needs Pillow; without it
\* the squareness is indeterminate, the call returns True and the picture stays.
C17_FreshMp3WithPillow ==
    FreshRun =>
        /\ FreshFirstCalls
        /\ batch.pc = "reevaluated" =>
              IF batch.img.w = batch.img.h \/ ~env.pil THEN FreshKept ELSE FreshPurged

C17_Witness ==
    /\ FreshRun /\ batch.pc = "reevaluated" /\ env.pil
    /\ batch.img = Img(3, 2)
    /\ FreshPurged /\ disk[1].tagged

\* ---- reading a URL back
RECURSIVE split(_, _)
\* s.split(c)
split(s, c) ==
    IF \A i \in 1..Len(s) : s[i] # c THEN <<s>>
    ELSE LET i == CHOOSE j \in 1..Len(s) : s[j] = c /\ \A k \in 1..(j - 1) : s[k] # c
         IN <<SubSeq(s, 1, i - 1)>> \o split(SubSeq(s, i + 1, Len(s)), c)

RECURSIVE unquote_plus(_)
\* urllib.parse.unquote_plus, the way back from quote_plus
unquote_plus(s) ==
    IF s = <<>> THEN <<>>
    ELSE IF s[1] = "+" THEN <<" ">> \o unquote_plus(Tail(s))
    ELSE IF s[1] = "%" /\ Len(s) >= 3 /\ \E c \in Escaped : hex(c) = <<s[2], s[3]>>
    THEN <<CHOOSE c \in Escaped : hex(c) = <<s[2], s[3]>> >> \o unquote_plus(SubSeq(s, 4, Len(s)))
    ELSE <<s[1]>> \o unquote_plus(Tail(s))

UrlBuilt == last.op \in {"build_url_with_params", "build_musichoarders_url_with_params"}

\* what the call put behind base_url and the separator
Appended ==
    IF Len(last.url) > Len(last.args.base_url) + 1
    THEN SubSeq(last.url, Len(last.args.base_url) + 2, Len(last.url))
    ELSE <<>>

\* the parameters a server reads from that query string: name and value decoded
AppendedParams ==
    IF Appended = <<>> THEN <<>>
    ELSE LET segs == split(Appended, "&")
         IN [i \in 1..Len(segs) |->
               LET kv == split(segs[i], "=")
               IN [key |-> unquote_plus(kv[1]),
                   value |-> IF Len(kv) >= 2 THEN unquote_plus(kv[2]) ELSE <<>>]]

FieldKey ==
    [resolution |-> K_resolution, country |-> K_country, artist |-> K_artist,
     album |-> K_album, identifier |-> K_identifier]

ThemeIncluded == Given(last.args.theme) /\ lower(last.args.theme) \in {V_light, V_dark}

\* the names of the parameters whose field is non-empty
KeysDue ==
    {FieldKey[n] : n \in {m \in DOMAIN FieldKey : Given(last.args[m])}}
    \cup (IF ThemeIncluded THEN {K_theme} ELSE {})
    \cup (IF GivenList(last.args.sources) THEN {K_sources} ELSE {})

\* a list of sources as documented: entries non-empty, without blanks
PlainSources(l) ==
    GivenList(l) /\ \A i \in 1..Len(l) : l[i] # <<>> /\ \A k \in 1..Len(l[i]) : l[i][k] # " "

\* C18: the search URL carries a parameter only for a non-empty field: none with
\* an empty value; resolution, country, artist, album and identifier, when
\* non-empty, each with its value; sources as its values lowercased and joined
\* by commas.
C18_OnlyNonEmptyParams ==
    UrlBuilt =>
        LET ps == AppendedParams
        IN /\ \A i \in 1..Len(ps) : ps[i].value # <<>>
           /\ {ps[i].key : i \in 1..Len(ps)} = KeysDue
           /\ \A i, j \in 1..Len(ps) : ps[i].key = ps[j].key => i = j
           /\ \A n \in DOMAIN FieldKey :
                 Given(last.args[n]) =>
                    \E i \in 1..Len(ps) : ps[i] = [key |-> FieldKey[n], value |-> last.args[n]]
           /\ PlainSources(last.args.sources) =>
                 \E i \in 1..Len(ps) :
                    ps[i] = [key |-> K_sources,
                             value |-> join([k \in 1..Len(last.args.sources) |->
                                               lower(last.args.sources[k])], <<",">>)]

HasQueryString(u) == \E i \in 1..Len(u) : u[i] = "?"

\* C19: with at least one parameter included the query string is appended to
\* base_url after '?' when base_url has no query string and after '&' when it
\* has one; with no parameter the result is base_url.
C19_Separator ==
    UrlBuilt =>
        LET base == last.args.base_url
        IN IF KeysDue = {} THEN last.url = base
           ELSE /\ Len(last.url) > Len(base) + 1
                /\ SubSeq(last.url, 1, Len(base)) = base
                /\ last.url[Len(base) + 1] = (IF HasQueryString(base) THEN "&" ELSE "?")
                /\ Appended = urlencode([i \in 1..Len(AppendedParams) |->
                                <<AppendedParams[i].key, AppendedParams[i].value>>])

C19_Witness ==
    /\ UrlBuilt
    /\ HasQueryString(last.args.base_url)
    /\ Len(last.args.base_url) > 2
    /\ KeysDue = {K_artist}
    /\ last.url = last.args.base_url \o <<"&">> \o K_artist \o <<"=">> \o <<"A", "%", "2", "6", "B">>

Scanned == last.op \in {"get_local_music_file_paths", "scan_folder_for_music_files"}

MusicExtensions ==
    {<<"m", "p", "3">>, <<"f", "l", "a", "c">>, <<"m", "4", "a">>, <<"m", "p", "4">>, <<"o", "g", "g">>, <<"o", "g", "a">>, <<"o", "p", "u", "s">>, <<"w", "a", "v">>, <<"a", "a", "c">>}

\* name ends in '.' and ext, behind at least one other character
EndsWithExtension(name, ext) ==
    /\ Len(name) > Len(ext) + 1
    /\ name[Len(name) - Len(ext)] = "."
    /\ lower(SubSeq(name, Len(name) - Len(ext) + 1, Len(name))) = ext

\* the regular files with a music extension in the scope of the scan
MusicFilesUnderRoot ==
    IF disk.root # "dir" THEN {}
    ELSE {e \in disk.entries :
            /\ e.type = "file"
            /\ last.recursive \/ Len(e.path) = 1
            /\ \E ext \in MusicExtensions : EndsWithExtension(e.path[Len(e.path)], ext)}

\* C20: the scanner returns exactly the regular files under the root (the
\* subtree if recursive, the direct children otherwise) whose extension is, case
\* aside, one of the nine music extensions, each once, in ascending order; a root
\* that is missing or no directory gives the empty list.
C20_ScanResult ==
    Scanned =>
        /\ {last.result[i] : i \in 1..Len(last.result)}
              = {path_str(e.path) : e \in MusicFilesUnderRoot}
        /\ \A i, j \in 1..Len(last.result) :
              i < j => str_lt(last.result[i], last.result[j])
        /\ disk.root # "dir" => last.result = <<>>

C20_Witness ==
    /\ Scanned /\ last.recursive /\ disk.root = "dir"
    /\ disk.entries = Universe
    /\ last.result = <<path_str(<<<<"B", ".", "F", "L", "A", "C">>>>), path_str(<<<<"a", ".", "m", "p", "3">>>>),
                       path_str(<<<<"e", ".", "o", "g", "g">>, <<"f", ".", "w", "a", "v">>>>), path_str(<<<<"s">>, <<"a", ".", "m", "p", "3">>>>),
                       path_str(<<<<"s">>, <<"t">>, <<"g", ".", "a", "a", "c">>>>), path_str(<<<<"s">>, <<"z", ".", "O", "p", "u", "s">>>>)>>


\* ---- the download
Downloaded == last.op = "download_artwork_image"

\* the media type of the header, before the '/', is image in whatever case
DenotesImage(content_type) == lower(split(content_type, "/")[1]) = <<"i", "m", "a", "g", "e">>

ImageReply == last.reply.http = "ok" /\ DenotesImage(last.reply.content_type)

\* the enclosing operation got as far as the download
AttemptedDownload ==
    \/ last.op = "download_and_embed_artwork" /\ last.page = "found"
    \/ last.op = "download_and_embed_artwork_using_url"

PresentTags == IF last.audio_file.has_tags THEN DOMAIN last.audio_file.tags ELSE {}

TagValue(tag) == join(last.audio_file.tags[tag].text, <<NUL>>)

\* the positions in names of the tags present with a non-empty value
NonEmptyAt(names) ==
    {i \in 1..Len(names) : names[i] \in PresentTags /\ TagValue(names[i]) # <<>>}

\* what the claim says of a field read from the tags names, in priority order
FieldFrom(names, value) ==
    /\ NonEmptyAt(names) # {} =>
         value = TagValue(names[CHOOSE i \in NonEmptyAt(names) :
                                   \A j \in NonEmptyAt(names) : i <= j])
    /\ (\A i \in 1..Len(names) : names[i] \notin PresentTags) => value = Absent

\* C22: when mutagen opens an MP3 file, get_music_metadata returns without an
\* exception whichever tags are absent; artist is the first non-empty value
\* among TPE1, TPE2, TCOM, album is the value of TALB, title is the first
\* non-empty value among TIT2, TIT1, and a field none of whose tags is present
\* is None.
C22_Mp3TagPriority ==
    (last.op = "get_music_metadata" /\ env.mutagen /\ last.parse = "ok") =>
        /\ last.result.status = "ok"
        /\ FieldFrom(<<"TPE1", "TPE2", "TCOM">>, last.result.metadata.artist)
        /\ FieldFrom(<<"TIT2", "TIT1">>, last.result.metadata.title)
        /\ FieldFrom(<<"TALB">>, last.result.metadata.album)
        /\ "TALB" \in PresentTags => last.result.metadata.album = TagValue("TALB")

C22_Witness ==
    /\ last.op = "get_music_metadata" /\ env.mutagen /\ last.parse = "ok"
    /\ PresentTags = {"TPE1", "TCOM", "TIT1"}
    /\ TagValue("TPE1") = <<>>
    /\ last.result.metadata.artist = <<"y", NUL, "z">>
    /\ last.result.metadata.title = <<"x">>
    /\ last.result.metadata.album = Absent


\* ---- the browser
\* at position i of the log, module m has had an init_browser that returned and
\* no close_browser since
InitialisedBefore(m, i) ==
    \E j \in 1..(i - 1) :
        /\ batch.log[j] = BrowserCall(m, "init_browser", Nil)
        /\ \A k \in (j + 1)..(i - 1) :
              ~(batch.log[k].module = m /\ batch.log[k].op = "close_browser")

DeterminatelyNonSquare(pic) ==
    IF pic.width # 0 /\ pic.height # 0 THEN pic.width # pic.height
    ELSE env.pil /\ pic.data.form = "image" /\ pic.data.w # pic.data.h

NoNonSquare(f) ==
    \A i \in 1..Len(_iter_embedded_artwork(f)) :
        ~DeterminatelyNonSquare(_iter_embedded_artwork(f)[i])

\* C24: a call of has_embedded_artwork on a file none of whose embedded pictures
\* is determinately non-square leaves the file, pictures and other tags, as it
\* was; the file differs after a call only when the call purged.
C24_HasFrame ==
    last.op = "has" =>
        /\ NoNonSquare(last.pre) => disk[last.f] = last.pre
        /\ disk[last.f] # last.pre => last.purge

C24_Witness ==
    /\ Opened /\ last.saveOk
    /\ Len(_iter_embedded_artwork(last.pre)) = 2
    /\ Squareness(last.pre) = <<Unknown, Square>>
    /\ last.pre.text = SomeText
    /\ last.ret = T
    /\ disk[last.f] = last.pre


\* ---- the result lists
Occurrences(seq, x) == Cardinality({k \in 1..Len(seq) : seq[k] = x})

\* the loop is between two iterations, or over
BetweenIterations == batch.pc \in {"eval", "done"}

\* between iterations each file whose iteration is over is once in one list,
\* and no other file is in a list
ListedOnce ==
    BetweenIterations =>
        \A p \in DOMAIN disk :
            Occurrences(batch.with_artwork, p) + Occurrences(batch.without_artwork, p)
                = (IF p < batch.i THEN 1 ELSE 0)

\* a file enters with_artwork on an evaluation or an embed that returned True,
\* and never leaves it
EntersWithArtwork ==
    (InLoop /\ InLoop') =>
        /\ Range(batch.with_artwork) \subseteq Range(batch'.with_artwork)
        /\ \A p \in Range(batch'.with_artwork) \ Range(batch.with_artwork) :
              /\ last'.f = p /\ last'.ret = T
              /\ last'.op \in {"has", "embed_mh", "embed_yt"}

\* C25: after every iteration of the batch loop and at its end, each file
\* processed so far is exactly once in exactly one of with_artwork and
\* without_artwork, whatever its evaluation, metadata extraction, download or
\* embed did, exceptions included; a file is put in with_artwork only by an
\* evaluation that found artwork or an embed that reported success.
C25_ResultLists == [](ListedOnce) /\ [][EntersWithArtwork]_vars

C25_Witness ==
    /\ batch.pc = "eval" /\ batch.i = 2
    /\ last.op = "fetch_mh" /\ last.ret = Raise
    /\ batch.without_artwork = <<1>> /\ batch.with_artwork = <<>>


\* ---- the batch run again
Listed(seq, x) == \E k \in 1..Len(seq) : seq[k] = x

\* the second run has just evaluated a file the first run reported in
\* with_artwork, and the file opened
SecondRunEvaluated ==
    /\ SecondRun /\ last.op = "has"
    /\ Listed(batch.first, last.f)
    /\ last.parse = "ok"

\* C26: in a second run over the folder as the first run left it, every file the
\* first run reported in with_artwork is evaluated by has_embedded_artwork as
\* having artwork, without a purge (so that the run goes on to the next file
\* and embeds nothing into it).
C26_SecondRunKeeps ==
    SecondRunEvaluated => (last.ret = T /\ ~last.purge)


\* ---- the YouTube fallback
\* the step just taken moved the current file from without_artwork to
\* with_artwork
Moved ==
    /\ Listed(batch'.with_artwork, batch.i)
    /\ ~Listed(batch'.without_artwork, batch.i)

NotMoved ==
    /\ batch'.with_artwork = batch.with_artwork
    /\ batch'.without_artwork = batch.without_artwork

\* the MusicHoarders step of a file: on success the file is moved and the loop
\* goes to the next file, otherwise the YouTube step comes next; the YouTube
\* step: the file is moved exactly when it reported success
FallbackStep ==
    /\ batch.pc = "musichoarders" =>
         IF last'.ret = T THEN Moved /\ batch'.pc = "eval" /\ batch'.i = batch.i + 1
         ELSE NotMoved /\ batch'.pc = "youtube" /\ batch'.i = batch.i
    /\ batch.pc = "youtube" =>
         /\ last'.op \in {"fetch_yt", "embed_yt"} /\ last'.f = batch.i
         /\ IF last'.ret = T THEN Moved ELSE NotMoved

\* C27: for a file without artwork that has an artist or album tag, the YouTube
\* fallback is attempted whenever the MusicHoarders download-and-embed did not
\* embed artwork and never after it succeeded, and the file is moved to
\* with_artwork exactly when one of the two steps reported success.
C27_YoutubeFallback == [][FallbackStep]_vars


\* ---- the search URL of the batch loop
\* C28: every search URL the batch loop generates for a file carries an artist
\* or an album parameter with a non-empty value.
C28_UrlNamesArtistOrAlbum ==
    (last.op \in {"yumebyo", "process_folder_for_artwork"} /\ last.generated) =>
        \E i \in 1..Len(AppendedParams) :
            /\ AppendedParams[i].key \in {K_artist, K_album}
            /\ AppendedParams[i].value # <<>>


\* ---- the CLI and the page fetch
MainOver == batch.pc \in {"returned", "raised"}

\* C29: once init_browser has returned in main, close_browser has been called
\* exactly once when main is over, however process_folder_for_artwork ended, and
\* not before the try statement is left; and after every call of
\* fetch_first_artwork_image, returned or raised, each page it opened is closed.
C29_BrowserAndPagesClosed ==
    /\ (MainOver /\ batch.inited) => batch.closes = 1
    /\ batch.pc \in {"start", "try", "finally"} => batch.closes = 0
    /\ last.closed = last.opened

C29_Witness ==
    /\ batch.pc = "returned" /\ batch.inited
    /\ batch.result = "Exception" /\ batch.closes = 1
    /\ env.globals["app.browser"] = Globals(NoObject, NoObject, NoObject)
    /\ last.ret = Raise /\ last.opened = 2 /\ last.closed = 2


\* ---- the thumbnail selection
\* the number a width or height stands for, 0 when there is none
Side(value) ==
    IF value.type = "int" THEN value.v
    ELSE IF value.type = "str" THEN int_of_digits(value.digits, 0)
    ELSE 0

ValidThumb(e) == e.dict /\ e.url # Absent /\ e.url # <<>> /\ Side(e.width) > 0 /\ Side(e.height) > 0

Area(e) == Side(e.width) * Side(e.height)

ValidAt == {i \in 1..Len(last.thumbnails) : ValidThumb(last.thumbnails[i])}

\* the positions of the valid entries of largest area
LargestAt == {i \in ValidAt : \A j \in ValidAt : Area(last.thumbnails[j]) <= Area(last.thumbnails[i])}

\* C30: each of the four selection functions returns the url of the first entry,
\* in iteration order, among the valid entries (non-empty url, width > 0,
\* height > 0) of largest width * height, and None when no entry is valid.
C30_LargestThumbnail ==
    last.op # "call" =>
        IF ValidAt = {} THEN last.url = Absent
        ELSE last.url = last.thumbnails[CHOOSE i \in LargestAt : \A j \in LargestAt : i <= j].url

C30_Witness ==
    /\ last.op = "_fetch_highest_quality_thumbnail_url"
    /\ last.thumbnails = <<Thumb(<<"z">>, IntValue(-2), IntValue(-2)),
                           Thumb(<<"f">>, StrValue(<<"2">>), IntValue(2)),
                           Thumb(<<"e">>, IntValue(2), IntValue(2))>>
    /\ last.url = <<"f">>

====
